---- MODULE Spec2Model ----
(***************************************************************************)
(* Model of the test-generation pipeline of api_testing_agent:             *)
(*   - integrations/jira/contract_parser.py : contract resolution          *)
(*   - core/orchestrator.py : process_epic, the staged pipeline            *)
(*   - services/test_generator : the parsing of the oracles' completions   *)
(*                                                                         *)
(* Text is modelled as a sequence of symbols: a symbol is either a whole   *)
(* word (a maximal run of non-whitespace characters) or one whitespace     *)
(* character (" ", "\t", "\n").  Two words are never adjacent.             *)
(* Scores and thresholds are counted in tenths (7 stands for 0.7).         *)
(***************************************************************************)
EXTENDS Integers, Sequences, FiniteSets, TLC

VARIABLES
    pc,              \* position in process_epic / extract_contract
    entry,           \* which function was called: "process_epic" or "extract_contract"
    jira_issue,      \* the description field the tracker holds for the issue
    epic,            \* the fetched issue (its description field)
    fetch_openapi,   \* extract_contract's fetch_openapi argument
    save_locally,    \* process_epic arguments
    save_to_github,
    threshold,       \* openai.review_threshold, in tenths
    urls_to_try,     \* fetch_openapi_spec locals
    try_idx,
    http_log,        \* every requests.get issued: [url, resp, returned]
    contract,        \* the contract dict
    gate_prompt,     \* the signals written into the gate's prompt
    gate_result,
    generated_files, \* ordered mapping path -> content
    snapshot,        \* ai2_generated_files_snapshot
    review_json,
    corrected,       \* the corrections the review returned
    refine_response, \* the completion of the refinement oracle
    refine_notes,    \* the notes argument of refine_tests_with_notes: [text, len]
    files_before_refine, \* the copy of the files taken before refinement
    refined,
    refined_meta,
    avg,             \* the review average: [set, sum] (None until computed)
    ai_metadata,     \* the record serialized into metadata.json
    results,         \* the dict process_epic returns
    exc,             \* the exception caught by the top-level handler
    raised,          \* the exception that left the called function
    trace,           \* stages invoked so far, in order
    failed,          \* stages in which an exception was raised
    comments,        \* post_comment attempts: [kind, ok]
    disk,            \* files written below the output directory
    published,       \* files committed to the branch
    response,        \* the completion text handed to a parsing function called on its own
    returned,        \* what that function returned
    prefix,          \* runner.prefix_jira_name of the configuration
    runner_pc,       \* position in run_polling_runner
    cycle,           \* searches made so far
    issues,          \* the issues of the current search, by key
    issue_idx,       \* position of the for loop in issues
    recently_processed,
    invocations,     \* the runner's calls of process_epic: [key, cycle, outcome]
    clock,           \* the wall clock, in seconds
    run_key,         \* per webhook delivery: the issue key of the payload
    run_pc,          \* per delivery: position in jira_webhook / process_epic
    run_dir,         \* per delivery: the output directory of save_tests_locally
    run_branch,      \* per delivery: the branch name of commit_files_to_branch
    refs             \* the branches of the repository

input_vars == <<entry, jira_issue, fetch_openapi, save_locally, save_to_github, threshold>>
resolver_vars == <<urls_to_try, try_idx, http_log, contract>>
file_vars == <<generated_files, snapshot>>
gate_vars == <<gate_prompt, gate_result>>
review_vars == <<review_json, corrected, refine_response, refine_notes, files_before_refine, refined,
                 refined_meta, avg>>
call_vars == <<response, returned>>
effect_vars == <<comments, disk, published>>

pipeline_vars ==
    <<pc, epic, input_vars, resolver_vars, gate_vars, file_vars, review_vars,
      ai_metadata, results, exc, raised, trace, failed, effect_vars, call_vars>>
runner_vars == <<runner_pc, cycle, issues, issue_idx, recently_processed, invocations>>
webhook_vars == <<clock, run_key, run_pc, run_dir, run_branch, refs>>
service_vars == <<prefix, runner_vars, webhook_vars>>

vars == <<pipeline_vars, service_vars>>

(***************************************************************************)
(* Bounds of the model.                                                    *)
(***************************************************************************)
MaxLines == 2        \* lines of a plain-text description
MaxParas == 2        \* block nodes of a rich-document description
MaxGenSymbols == 5   \* symbols of a generation completion
MaxBlocks == 3       \* pieces of a generation completion made of blocks
MaxCycles == 3       \* searches of the polling runner
MaxPerCycle == 2     \* runner.max_per_cycle: issues of one search
MaxRuns == 2         \* webhook deliveries
MaxClock == 2        \* seconds the wall clock advances

(***************************************************************************)
(* Text helpers (Python str methods on symbol sequences).                  *)
(***************************************************************************)
SP == " "
TAB == "\t"
NL == "\n"
Whitespace == {SP, TAB, NL}

\* str.upper() on the words of the model
upper(w) ==
    CASE w = "get" -> "GET"
      [] w = "post" -> "POST"
      [] OTHER -> w

RECURSIVE lstrip(_)
lstrip(s) == IF s # <<>> /\ Head(s) \in Whitespace THEN lstrip(Tail(s)) ELSE s

RECURSIVE rstrip(_)
rstrip(s) ==
    IF s # <<>> /\ s[Len(s)] \in Whitespace THEN rstrip(SubSeq(s, 1, Len(s) - 1)) ELSE s

strip(s) == rstrip(lstrip(s))

\* str.split(): the words of s
RECURSIVE split(_)
split(s) ==
    IF s = <<>> THEN <<>>
    ELSE IF Head(s) \in Whitespace THEN split(Tail(s))
    ELSE <<Head(s)>> \o split(Tail(s))

\* str.splitlines(): cut at every "\n"; no empty last line after a final "\n"
RECURSIVE splitlines_from(_, _)
splitlines_from(s, cur) ==
    IF s = <<>> THEN (IF cur = <<>> THEN <<>> ELSE <<cur>>)
    ELSE IF Head(s) = NL THEN <<cur>> \o splitlines_from(Tail(s), <<>>)
    ELSE splitlines_from(Tail(s), Append(cur, Head(s)))

splitlines(s) == splitlines_from(s, <<>>)

\* ' '.join(filter(None, parts))
RECURSIVE join_nonempty(_)
join_nonempty(parts) ==
    IF parts = <<>> THEN <<>>
    ELSE LET rest == join_nonempty(Tail(parts)) IN
         IF Head(parts) = <<>> THEN rest
         ELSE IF rest = <<>> THEN Head(parts)
         ELSE Head(parts) \o <<SP>> \o rest

(***************************************************************************)
(* contract_parser.py                                                      *)
(***************************************************************************)
\* A rich-document (ADF) node: type, own text (<<>> when the key is absent or
\* empty) and children.  Documents of the model are two levels deep:
\* doc -> block nodes -> text nodes.
TextNode(t) == [type |-> "text", text |-> t, content |-> <<>>]
BlockNode(ty, t) == [type |-> ty, text |-> <<>>, content |-> <<TextNode(t)>>]

RECURSIVE extract_text_from_adf(_)
RECURSIVE adf_children_text(_)
adf_children_text(items) ==
    IF items = <<>> THEN <<>>
    ELSE <<extract_text_from_adf(Head(items))>> \o adf_children_text(Tail(items))

\* a bug: no newline after a heading
BlockTypes_paragraph_only == {"paragraph"}

\* the node types that get a newline appended
BlockTypes == {"paragraph", "heading"}

extract_text_from_adf(adf) ==
    LET text_parts == <<adf.text>> \o adf_children_text(adf.content)
        result == join_nonempty(text_parts)
    IN IF adf.type \in BlockTypes THEN result \o <<NL>> ELSE result

\* The description field: None, a str, a dict (ADF) or any other value
\* (modelled by the text str() gives for it).
NoNode == [type |-> "none", text |-> <<>>, content |-> <<>>]
DescNone == [kind |-> "none", text |-> <<>>, adf |-> NoNode]
DescStr(t) == [kind |-> "str", text |-> t, adf |-> NoNode]
DescAdf(blocks) ==
    [kind |-> "adf", text |-> <<>>, adf |-> [type |-> "doc", text |-> <<>>, content |-> blocks]]
DescOther(t) == [kind |-> "other", text |-> t, adf |-> NoNode]

normalize_description(desc_field) ==
    CASE desc_field.kind = "none" -> <<>>
      [] desc_field.kind = "str" -> desc_field.text
      [] desc_field.kind = "adf" -> extract_text_from_adf(desc_field.adf)
      [] OTHER -> desc_field.text

\* The URL pattern of extract_openapi_url, on the URL words of the model.
\* A URL word is stem ++ ext ++ tail where stem ends in the path segment seg.
SpecSegments == {"openapi", "swagger", "api-docs", "docs"}
KnownExt == {".json", ".yaml", ".yml"}
NoShape == [stem |-> "", seg |-> "", ext |-> "", tail |-> ""]
UrlShape(w) ==
    CASE w = "http://h/openapi" ->
            [stem |-> "http://h/openapi", seg |-> "openapi", ext |-> "", tail |-> ""]
      [] w = "http://h/swagger.json" ->
            [stem |-> "http://h/swagger", seg |-> "swagger", ext |-> ".json", tail |-> ""]
      [] w = "http://h/docs/" ->
            [stem |-> "http://h/docs", seg |-> "docs", ext |-> "", tail |-> "/"]
      [] w = "http://h/users" ->
            [stem |-> "http://h/users", seg |-> "users", ext |-> "", tail |-> ""]
      [] OTHER -> NoShape

\* A URL is a sequence of pieces; its last piece is its extension, if any.
NoUrl == <<>>
UrlMatch(w) ==
    LET sh == UrlShape(w) IN
    IF sh.seg \in SpecSegments /\ sh.ext \in KnownExt \cup {""} /\ sh.tail \in {"", "/"}
    THEN (IF sh.ext = "" THEN <<sh.stem>> ELSE <<sh.stem, sh.ext>>)
    ELSE NoUrl

RECURSIVE extract_openapi_url(_)
extract_openapi_url(text) ==
    IF text = <<>> THEN NoUrl
    ELSE IF UrlMatch(Head(text)) # NoUrl THEN UrlMatch(Head(text))
    ELSE extract_openapi_url(Tail(text))

HttpMethods == {"GET", "POST", "PUT", "DELETE", "PATCH"}

\* line.upper().startswith(('GET ', 'POST ', ...))
starts_with_method(line) ==
    Len(line) >= 2 /\ upper(line[1]) \in HttpMethods /\ line[2] = SP

endpoint_of_line(raw) ==
    LET line == strip(raw)
        parts == split(line)
    IN IF starts_with_method(line) /\ Len(parts) >= 2
       THEN <<[method |-> upper(parts[1]), path |-> parts[2]]>>
       ELSE <<>>

RECURSIVE endpoints_of_lines(_)
endpoints_of_lines(lines) ==
    IF lines = <<>> THEN <<>>
    ELSE endpoint_of_line(Head(lines)) \o endpoints_of_lines(Tail(lines))

extract_endpoints(text) == endpoints_of_lines(splitlines(text))

\* The contract dict: the set of its keys and the value under each key.
NoContract ==
    [keys |-> {}, openapi_url |-> NoUrl, openapi_spec |-> "None",
     endpoints |-> <<>>, description |-> <<>>]
UrlContract(url) == [NoContract EXCEPT !.keys = {"openapi_url"}, !.openapi_url = url]
EndpointContract(eps) == [NoContract EXCEPT !.keys = {"endpoints"}, !.endpoints = eps]
DescriptionContract(t) == [NoContract EXCEPT !.keys = {"description"}, !.description = t]
WithSpec(c, spec) ==
    [c EXCEPT !.keys = c.keys \cup {"openapi_spec"}, !.openapi_spec = spec]

\* a bug: the suffixes are tried whatever the URL ends in
candidate_urls_always_suffixed(url) ==
    <<url, Append(url, ".json"), Append(url, ".yaml")>>

\* fetch_openapi_spec: the candidate list
candidate_urls(url) ==
    IF url[Len(url)] \in KnownExt THEN <<url>>
    ELSE <<url, Append(url, ".json"), Append(url, ".yaml")>>

\* What one requests.get + parse can do.
\*   conn_error : requests.get raises a RequestException
\*   http_error : raise_for_status raises HTTPError (a RequestException)
\*   other_error: any other exception
\*   garbage    : body is neither JSON nor YAML
\*   json_*     : response.json() returns a mapping / a falsy value / another value
\*   yaml_*     : JSON fails, yaml.safe_load returns a mapping / None / a scalar
Responses == {"conn_error", "http_error", "other_error", "garbage",
              "json_doc", "json_empty", "json_other",
              "yaml_doc", "yaml_none", "yaml_other"}

\* the answers tried in the runs of the whole pipeline
PipelineResponses == {"conn_error", "json_doc", "yaml_none", "yaml_other"}

\* the value the attempt returns, "raise" when an exception is raised instead
parsed_value(resp) ==
    CASE resp \in {"json_doc", "yaml_doc"} -> "mapping"
      [] resp \in {"json_empty", "yaml_none"} -> "falsy"
      [] resp \in {"json_other", "yaml_other"} -> "nonmapping"
      [] OTHER -> "raise"

exception_of(resp) ==
    CASE resp \in {"conn_error", "http_error"} -> "RequestException"
      [] resp = "garbage" -> "YAMLError"
      [] OTHER -> "Exception"

\* a bug: only the exceptions of requests are caught
fetch_catches_requests_only(e) == e = "RequestException"

\* a bug: an error of the YAML parser is not caught
fetch_catches_no_parse_error(e) == e \in {"RequestException", "Exception"}

\* the except clauses of the attempt: which exceptions make the loop continue
fetch_catches(e) == e \in {"RequestException", "YAMLError", "Exception"}

truthy(v) == v \in {"mapping", "nonmapping"}

\* where control goes when extract_contract returns c
after_contract(c) ==
    IF entry = "extract_contract" THEN "returned"
    ELSE IF c.openapi_spec = "nonmapping" THEN "handler"
    ELSE "gate"

\* where control goes when extract_contract raises
after_contract_raise == IF entry = "extract_contract" THEN "raised" ELSE "handler"

\* a bug: the endpoint lines are looked for before the URL
contract_of_description_endpoints_first(desc) ==
    LET openapi_url == extract_openapi_url(desc)
        endpoints == extract_endpoints(desc)
    IN IF desc = <<>> THEN DescriptionContract(<<>>)
       ELSE IF endpoints # <<>> THEN EndpointContract(endpoints)
       ELSE IF openapi_url # NoUrl THEN UrlContract(openapi_url)
       ELSE DescriptionContract(desc)

\* extract_contract without the network read: the contract chosen from the
\* normalized description
contract_of_description(desc) ==
    LET openapi_url == extract_openapi_url(desc)
        endpoints == extract_endpoints(desc)
    IN IF desc = <<>> THEN DescriptionContract(<<>>)
       ELSE IF openapi_url # NoUrl THEN UrlContract(openapi_url)
       ELSE IF endpoints # <<>> THEN EndpointContract(endpoints)
       ELSE DescriptionContract(desc)

\* a bug: the specification is fetched whether live fetching was asked for or not
should_fetch_always(c, fetch) == "openapi_url" \in c.keys

\* if openapi_url: ... if fetch_openapi: the network is read for a URL
\* contract when the caller asked for it
should_fetch(c, fetch) == "openapi_url" \in c.keys /\ fetch

\* extract_contract up to the first network read
extract_contract ==
    /\ pc = "extract_contract"
    /\ contract' = contract_of_description(normalize_description(epic))
    /\ IF should_fetch(contract', fetch_openapi)
       THEN /\ urls_to_try' = candidate_urls(contract'.openapi_url)
            /\ try_idx' = 1
            /\ pc' = "fetch_openapi_spec"
       ELSE /\ pc' = after_contract(contract')
            /\ UNCHANGED <<urls_to_try, try_idx>>
    /\ trace' = IF entry = "process_epic" THEN Append(trace, "ResolveContract") ELSE trace
    /\ exc' = IF pc' = "handler" THEN "ResolveContract" ELSE exc
    /\ failed' = IF pc' = "handler" THEN failed \cup {"ResolveContract"} ELSE failed
    /\ UNCHANGED <<epic, input_vars, service_vars, call_vars, http_log, gate_vars, file_vars, review_vars,
                   ai_metadata, results, raised, effect_vars>>

\* one iteration of the loop of fetch_openapi_spec, and the return to
\* extract_contract when the loop ends
fetch_openapi_spec ==
    /\ pc = "fetch_openapi_spec"
    /\ try_idx <= Len(urls_to_try)
    /\ \E resp \in (IF entry = "process_epic" THEN PipelineResponses ELSE Responses) :
         LET try_url == urls_to_try[try_idx]
             v == parsed_value(resp)
         IN /\ http_log' = Append(http_log, [url |-> try_url, resp |-> resp,
                                             returned |-> v # "raise"])
            /\ IF v # "raise" THEN
                   \* return spec; back in extract_contract: if openapi_spec: ...
                   /\ contract' = IF truthy(v) THEN WithSpec(contract, v) ELSE contract
                   /\ pc' = after_contract(contract')
                   /\ try_idx' = try_idx
               ELSE IF fetch_catches(exception_of(resp)) THEN
                   \* continue; after the last candidate: return None
                   /\ try_idx' = try_idx + 1
                   /\ contract' = contract
                   /\ pc' = IF try_idx' > Len(urls_to_try)
                            THEN after_contract(contract) ELSE pc
               ELSE
                   /\ try_idx' = try_idx
                   /\ contract' = contract
                   /\ pc' = after_contract_raise
    /\ exc' = IF pc' = "handler" THEN "ResolveContract" ELSE exc
    /\ raised' = IF pc' = "raised" THEN "fetch_openapi_spec" ELSE raised
    /\ failed' = IF pc' \in {"handler", "raised"}
                 THEN failed \cup {"ResolveContract"} ELSE failed
    /\ UNCHANGED <<epic, input_vars, service_vars, call_vars, urls_to_try, gate_vars, file_vars, review_vars,
                   ai_metadata, results, trace, effect_vars>>

(***************************************************************************)
(* ArtifactSet: a dict in insertion order, as a sequence of items.         *)
(***************************************************************************)
Item(p, c) == [path |-> p, content |-> c]
dict_keys(d) == { d[i].path : i \in 1..Len(d) }
dict_get(d, p) ==
    IF p \in dict_keys(d) THEN d[CHOOSE i \in 1..Len(d) : d[i].path = p].content ELSE "None"
\* a bug: a key that is present keeps its first value
dict_set_keep_first(d, p, c) == IF p \in dict_keys(d) THEN d ELSE Append(d, Item(p, c))

\* d[p] = c
dict_set(d, p, c) ==
    IF p \in dict_keys(d)
    THEN [i \in 1..Len(d) |-> IF d[i].path = p THEN Item(p, c) ELSE d[i]]
    ELSE Append(d, Item(p, c))

\* a bug: the files returned replace the working set
dict_update_replace(d, u) == IF u = <<>> THEN d ELSE u

\* dict.update
RECURSIVE dict_update(_, _)
dict_update(d, u) ==
    IF u = <<>> THEN d
    ELSE dict_update(dict_set(d, Head(u).path, Head(u).content), Tail(u))

(***************************************************************************)
(* services/test_generator/generator.py : parse_test_files                 *)
(* A completion is a text whose symbols are begin markers (without the     *)
(* newline that has to follow them), the end marker, words and newlines.   *)
(* A path is a text too.                                                   *)
(***************************************************************************)
HdrA == "---TESTFILE: a.py---"
HdrB == "---TESTFILE: b.py---"
HdrNoPath == "---TESTFILE: ---"
EndMarker == "---ENDTESTFILE---"
Headers == {HdrA, HdrB, HdrNoPath}
GenSymbols == Headers \cup {EndMarker, "x", NL}
FallbackPath == <<"generated_tests.txt">>

\* the path group of a begin marker that is closed by its own dashes
header_path(sym) ==
    CASE sym = HdrA -> <<"a.py">>
      [] sym = HdrB -> <<"b.py">>
      [] OTHER -> <<>>

\* r"\s*---\n" after the lazy path group: the first symbol at or after i
\* that ends in three dashes and has a newline behind it (0: there is none)
header_close(text, i) ==
    LET S == { k \in i..(Len(text) - 1) :
                 text[k] \in Headers \cup {EndMarker} /\ text[k + 1] = NL }
    IN IF S = {} THEN 0 ELSE CHOOSE k \in S : \A m \in S : k <= m

\* the lazy content group with its lookahead: the first end marker at or
\* after from (0: there is none)
content_end(text, from) ==
    LET S == { j \in from..Len(text) : text[j] = EndMarker }
    IN IF S = {} THEN 0 ELSE CHOOSE j \in S : \A m \in S : j <= m

\* re.finditer: the matches from symbol i on, as (path, content) items; the
\* text between a begin marker and a later closing "---\n" is the path when
\* the marker is not closed by its own dashes
RECURSIVE test_file_matches(_, _)
test_file_matches(text, i) ==
    IF i > Len(text) THEN <<>>
    ELSE LET k == IF text[i] \in Headers THEN header_close(text, i) ELSE 0
             j == IF k = 0 THEN 0 ELSE content_end(text, k + 2)
         IN IF j # 0
            THEN <<Item(IF k = i THEN header_path(text[i]) ELSE SubSeq(text, i, k),
                        rstrip(SubSeq(text, k + 2, j - 1)))>>
                 \o test_file_matches(text, j)
            ELSE test_file_matches(text, i + 1)

\* a bug: a completion without blocks gives no file
parse_test_files_no_fallback(text) == dict_update(<<>>, test_file_matches(text, 1))

parse_test_files(text) ==
    LET files == dict_update(<<>>, test_file_matches(text, 1))
    IN IF files = <<>> THEN <<Item(FallbackPath, text)>> ELSE files

(***************************************************************************)
(* What the collaborators may answer.                                      *)
(***************************************************************************)
\* A completion of the gate or review oracle, by what the fence handling and
\* json.loads make of it:
\*   api_error : the API call raises, there is no completion
\*   none      : the content is None
\*   object    : a JSON object
\*   array     : a JSON list
\*   scalar    : a JSON number, string, boolean or null
\*   text      : json.loads raises
\* len is the number of characters of the reason (object) or of the whole
\* content (text).
ReasonLimit == 500
FallbackReasonLimit == 200
NotesLimit == 4000

\* len(s[:n])
sliced_len(len, n) == IF len <= n THEN len ELSE n

\* the gate oracle.  should_proceed: "true", "false", "absent", or
\* "typo_true" (true under the key 'should_prcodeed'); reason: "str",
\* "absent", or "null" (a value that cannot be sliced); affirmative: the
\* lowered text contains 'true' or 'yes'
GateContent(form, sp, reason, len, aff) ==
    [form |-> form, should_proceed |-> sp, reason |-> reason, len |-> len,
     affirmative |-> aff]
GateObject(sp, reason, len) == GateContent("object", sp, reason, len, FALSE)
GateText(aff, len) == GateContent("text", "absent", "absent", len, aff)
GateOther(form) == GateContent(form, "absent", "absent", 0, FALSE)

\* every completion text of the gate oracle
GateContents ==
    { GateObject(sp, "str", len) :
        sp \in {"true", "false", "absent", "typo_true"}, len \in {0, 150, 500, 501, 800} }
    \cup { GateObject(sp, reason, 0) :
             sp \in {"true", "false", "absent", "typo_true"}, reason \in {"absent", "null"} }
    \cup { GateText(aff, len) : aff \in BOOLEAN, len \in {1, 150, 200, 201, 800} }
    \cup { GateOther(form) : form \in {"none", "array", "scalar"} }

\* the answers tried in the runs of the whole pipeline
GateResponses ==
    { GateOther("api_error"), GateOther("array"),
      GateObject("true", "str", 150), GateObject("false", "str", 150),
      GateText(TRUE, 150), GateText(FALSE, 150) }

\* generate_tests: the parsed files of the completion
GenOutputs ==
    { <<Item("test_a.py", "a1")>>,
      <<Item("test_a.py", "a1"), Item("test_b.py", "b1")>>,
      <<Item("generated_tests.txt", "raw")>> }

\* review_and_fix_tests: the JSON object of the completion.  non_numeric
\* holds the score fields whose value float() rejects (null, a word).
ReviewRecord(sc, cov, crit, syn, bad) ==
    [present |-> TRUE, score |-> sc, coverage_score |-> cov, criteria_score |-> crit,
     syntax_ok |-> syn, notes |-> "notes", notes_len |-> 150, non_numeric |-> bad]
Reviews ==
    { ReviewRecord(9, cov, crit, syn, {}) :
        cov \in {5, 10}, crit \in {0, 6, 10}, syn \in BOOLEAN }
    \cup { ReviewRecord(2, 5, 0, FALSE, {}), ReviewRecord(2, 10, 10, TRUE, {}) }
    \cup { ReviewRecord(0, 5, 0, FALSE, {"score"}),
           ReviewRecord(9, 0, 5, FALSE, {"coverage_score"}),
           ReviewRecord(9, 5, 0, FALSE, {"criteria_score"}) }
Corrections == { <<>>, <<Item("test_a.py", "a2")>> }

\* 'files' values that are JSON lists, written as items: an element that is
\* a string has no content ("None")
PathList == <<Item("test_a.py", "None")>>
\* a JSON list whose first element is a [path, content] pair and whose
\* second element is a string
PairThenPath == <<Item("test_a.py", "junk"), Item("oops", "None")>>

\* the review oracle: data and files are the object's fields
ReviewContent(form, data, files, len) ==
    [form |-> form, data |-> data, files |-> files, len |-> len]
ReviewObject(data, files) == ReviewContent("object", data, files, 0)
ReviewText(len) == ReviewContent("text", ReviewRecord(0, 0, 0, FALSE, {}), <<>>, len)
ReviewOther(form) == ReviewContent(form, ReviewRecord(0, 0, 0, FALSE, {}), <<>>, 0)

\* every completion text of the review oracle
ReviewContents ==
    { ReviewObject(rj, c) : rj \in Reviews, c \in Corrections }
    \cup { ReviewText(len) : len \in {1, 150, 4000, 4001, 9000} }
    \cup { ReviewOther(form) : form \in {"none", "array", "scalar"} }

\* the answers tried in the runs of the whole pipeline
ReviewResponses ==
    { ReviewObject(rj, c) : rj \in Reviews, c \in Corrections }
    \cup { ReviewObject(ReviewRecord(9, 5, 0, FALSE, {}), PairThenPath) }
    \cup { ReviewText(150), ReviewText(4001), ReviewOther("api_error"),
           ReviewOther("array") }

\* refine_tests_with_notes: the files mapping of the completion
Refinements ==
    { <<>>, <<Item("test_a.py", "a3")>>, <<Item("test_new.py", "n1")>>,
      <<Item("test_new.py", "n1"), Item("test_a.py", "a3")>> }

\* the refinement oracle: form is what json.loads makes of the completion,
\* files_kind the kind of the object's 'files' value.  A 'files' value that
\* is a JSON list is written as items; an element that is no pair has no
\* content ("None").
RefineContent(form, files_kind, files) ==
    [form |-> form, files_kind |-> files_kind, files |-> files]
RefineObject(files_kind, files) == RefineContent("object", files_kind, files)
RefineOther(form) == RefineContent(form, "absent", <<>>)
NoRefineResponse == RefineOther("none")
NoNotes == [text |-> "None", len |-> 0]

\* the answers tried in the runs of the whole pipeline
RefineResponses ==
    { RefineObject("mapping", r) : r \in Refinements }
    \cup { RefineObject("list", PathList), RefineObject("list", PairThenPath),
           RefineObject("absent", <<>>), RefineOther("text"), RefineOther("api_error") }

\* openai.review_threshold; 7 (0.7) is the default
Thresholds == {5, 7}

\* nothing was handed to a parsing function, nothing was returned by one
NoResponse == [form |-> "none"]
NoReturn == [fn |-> "none"]

(***************************************************************************)
(* services/test_generator/gating.py                                       *)
(***************************************************************************)
NoGate == [present |-> FALSE, should_proceed |-> FALSE,
           reason |-> [is_str |-> FALSE, len |-> 0]]
NoPrompt == [built |-> FALSE, openapi_url_present |-> FALSE, endpoints_listed |-> FALSE]

\* the signals of the prompt: the URL is taken from the contract or looked
\* for in the description again, the endpoints are taken from the contract
build_gate_prompt(issue, c) ==
    LET description == normalize_description(issue)
        openapi_url == IF "openapi_url" \in c.keys /\ c.openapi_url # NoUrl
                       THEN c.openapi_url ELSE extract_openapi_url(description)
        endpoints_present == "endpoints" \in c.keys /\ c.endpoints # <<>>
    IN [built |-> TRUE, openapi_url_present |-> openapi_url # NoUrl,
        endpoints_listed |-> endpoints_present]

\* the call raises: the API call itself, the key test or data.get on a value
\* that is no dict, or the slice of a reason that is no string
gate_raises(resp) ==
    \/ resp.form \in {"api_error", "array", "scalar"}
    \/ resp.form = "object" /\ resp.reason = "null"

\* the dict 'data' of check_epic_eligibility, after the keys were normalized
gate_data(resp) ==
    CASE resp.form = "text" ->
            [should_proceed |-> resp.affirmative,
             reason_len |-> sliced_len(resp.len, FallbackReasonLimit)]
      [] resp.form = "object" ->
            [should_proceed |-> resp.should_proceed \in {"true", "typo_true"},
             reason_len |-> IF resp.reason = "str" THEN resp.len ELSE 0]
      [] OTHER -> [should_proceed |-> FALSE, reason_len |-> 0]

check_epic_eligibility(resp) ==
    [present |-> TRUE,
     should_proceed |-> gate_data(resp).should_proceed,
     reason |-> [is_str |-> TRUE, len |-> sliced_len(gate_data(resp).reason_len, ReasonLimit)]]

(***************************************************************************)
(* services/test_generator/reviewer.py                                     *)
(***************************************************************************)
\* the call raises: the API call itself, or data.get on a value that is no dict
review_raises(resp) == resp.form \in {"api_error", "array", "scalar"}

\* a bug: the result put in place of a completion that is not JSON passes
zero_score_review_passing(len) ==
    [present |-> TRUE, score |-> 10, coverage_score |-> 10, criteria_score |-> 10,
     syntax_ok |-> TRUE, notes |-> "raw", notes_len |-> sliced_len(len, NotesLimit),
     non_numeric |-> {}]

\* the result put in place of a completion that is not JSON
zero_score_review(len) ==
    [present |-> TRUE, score |-> 0, coverage_score |-> 0, criteria_score |-> 0,
     syntax_ok |-> FALSE, notes |-> "raw", notes_len |-> sliced_len(len, NotesLimit),
     non_numeric |-> {}]

\* the empty object put in place of a missing content: every lookup in it
\* gives the default
empty_review ==
    [present |-> TRUE, score |-> 0, coverage_score |-> 0, criteria_score |-> 0,
     syntax_ok |-> FALSE, notes |-> "absent", notes_len |-> 0, non_numeric |-> {}]

\* (review_json, updated_files)
review_and_fix_tests(resp) ==
    CASE resp.form = "text" ->
            [review_json |-> zero_score_review(resp.len), updated_files |-> <<>>]
      [] resp.form = "object" ->
            [review_json |-> resp.data, updated_files |-> resp.files]
      [] OTHER -> [review_json |-> empty_review, updated_files |-> <<>>]

(***************************************************************************)
(* services/test_generator/refiner.py                                      *)
(***************************************************************************)
\* chat.completions.create is called outside the try block
refine_raises(resp) == resp.form = "api_error"

\* json.loads and data.get('files') or {} inside try / except Exception:
\* text that is no JSON, a JSON list or scalar, and an object whose 'files'
\* is missing, null or empty give {}; any other 'files' value is returned
\* as it is
refine_tests_with_notes(resp) ==
    IF resp.form = "object" /\ resp.files_kind \in {"mapping", "list"}
    THEN resp.files
    ELSE <<>>

(***************************************************************************)
(* core/orchestrator.py : process_epic                                     *)
(***************************************************************************)
\* generated_files.update(value) accepts a mapping; for a list of paths it
\* raises ValueError
update_raises(value) == \E i \in 1..Len(value) : value[i].content = "None"

\* what an update that raises has done before: dict.update inserts the
\* elements one by one, so the pairs in front of the first element that is
\* no pair are in the dict
RECURSIVE update_applied(_, _)
update_applied(d, value) ==
    IF value = <<>> \/ Head(value).content = "None" THEN d
    ELSE update_applied(dict_set(d, Head(value).path, Head(value).content), Tail(value))

NoMeta == [triggered |-> FALSE, applied |-> FALSE, changes |-> <<>>, built |-> FALSE]
NoReview == [present |-> FALSE, score |-> 0, coverage_score |-> 0, criteria_score |-> 0,
             syntax_ok |-> FALSE, notes |-> "None", notes_len |-> 0, non_numeric |-> {}]
NoAvg == [set |-> FALSE, sum |-> 0]
NoResults == [output_dir |-> "None", github_branch |-> "None", skipped |-> FALSE]
NoAiMetadata ==
    [built |-> FALSE, gate |-> NoGate, test_cases |-> <<>>, reviewer |-> NoReview,
     refiner_output |-> <<>>, refinement_metadata |-> NoMeta]

\* a bug: the composite score is counted into the average
review_sum_with_score(rj) ==
    rj.score + rj.criteria_score + (IF rj.syntax_ok THEN 10 ELSE 0)

\* coverage_score + criteria_score + (1.0 if syntax_ok else 0.0), in tenths
review_sum(rj) ==
    rj.coverage_score + rj.criteria_score + (IF rj.syntax_ok THEN 10 ELSE 0)

\* avg <= threshold on IEEE-754 doubles, avg = sum / 3.0.  For the tenths of
\* the model the doubles compare as the exact quotients do, with one
\* exception: 2.1 / 3.0 is 0.7000000000000001, which is above 0.7.
avg_le_threshold(sum, thr) ==
    IF sum = 21 /\ thr = 7 THEN FALSE ELSE sum <= 3 * thr

\* a bug: the decision of the gate is not looked at
after_gate_decision_ignored(gate) == "generate"

\* the gate block: where control goes after the gate answered
after_gate(gate) == IF gate.should_proceed THEN "generate" ELSE "gate_notify"

\* a bug: the run goes on after the notice of the gate's refusal
after_gate_notify_continue == "generate"

\* return {..., 'skipped': True} follows the notice, posted or not
after_gate_notify == "returned"

\* a bug: a failed review is left to the top-level handler
after_review_error_fatal == "handler"
\* a bug: a failed refinement sends the run back to the review
after_refine_error_retry == "review"
\* a bug: a failed generation is treated like a failed advisory stage
after_generate_error_logged == "metadata"

\* a bug: a failed gate check is asked again
after_gate_error_retry == "gate"

\* except Exception around the gate / review / refine blocks: log and go on
after_gate_error == "generate"
after_review_error == "metadata"
after_refine_error == "metadata"

\* the review block after review_and_fix_tests returned (rj, corr): whether
\* it raised, the working files, the average and where control goes.
\* float() is called on the three score fields for the log line; the
\* corrections are applied, then the average decides about the refinement
review_block(rj, corr, files, thr) ==
    IF rj.non_numeric # {}
    THEN [raised |-> TRUE, files |-> files, avg |-> NoAvg, next |-> after_review_error]
    ELSE IF update_raises(corr)
    THEN [raised |-> TRUE, files |-> update_applied(files, corr), avg |-> NoAvg,
          next |-> after_review_error]
    ELSE [raised |-> FALSE, files |-> dict_update(files, corr),
          avg |-> [set |-> TRUE, sum |-> review_sum(rj)],
          next |-> IF avg_le_threshold(review_sum(rj), thr) THEN "refine" ELSE "metadata"]

\* fetch_issue, generate_tests and save_tests_locally are called with no
\* try block of their own: the top-level handler gets their exceptions
after_fetch_error == "handler"
after_generate_error == "handler"
after_save_error == "handler"

after_save == IF save_to_github THEN "publish" ELSE "returned"
after_metadata == IF save_locally THEN "save" ELSE after_save

\* a bug: a failed publication parks the run where no step takes it on
after_publish_error_parked == "publish_retry_wait"

\* the exceptions of commit_files_to_branch are not caught around the call
after_publish_error == "handler"

\* a bug: the exception of the failed comment replaces the original one
reraised_comment_error(e, comment_ok) == IF comment_ok THEN e ELSE "post_comment"

\* the bare raise at the end of the top-level handler
reraised(e, comment_ok) == e

\* hashlib.sha256(content).hexdigest(): one digest per content
sha256(content) == <<"sha256", content>>

\* len(content.splitlines()) for the file contents of the model
line_count(content) ==
    CASE content \in {"a2", "n1"} -> 2
      [] content = "a3" -> 3
      [] OTHER -> 1

\* the record of a changed file
modified_record(path, before, after) ==
    [path |-> path, change |-> "modified",
     before_sha256 |-> sha256(before), after_sha256 |-> sha256(after),
     before_lines |-> line_count(before), after_lines |-> line_count(after)]

\* a bug: the new files are left out of the change records
RECURSIVE refine_changes_no_added(_, _, _)
refine_changes_no_added(before_files, after_items, refined_files) ==
    IF after_items = <<>> THEN <<>>
    ELSE LET path == Head(after_items).path
             after == Head(after_items).content
             before == dict_get(before_files, path)
             rest == refine_changes_no_added(before_files, Tail(after_items), refined_files)
         IN IF before # "None" /\ after # before
            THEN <<modified_record(path, before, after)>> \o rest
            ELSE rest

\* the diff loop after refinement
RECURSIVE refine_changes(_, _, _)
refine_changes(before_files, after_items, refined_files) ==
    IF after_items = <<>> THEN <<>>
    ELSE LET path == Head(after_items).path
             after == Head(after_items).content
             before == dict_get(before_files, path)
             rest == refine_changes(before_files, Tail(after_items), refined_files)
         IN IF before = "None" /\ path \in dict_keys(refined_files)
            THEN <<[path |-> path, change |-> "added"]>> \o rest
            ELSE IF before # "None" /\ after # before
            THEN <<modified_record(path, before, after)>> \o rest
            ELSE rest

\* a bug: the changes of the refinement are counted from the generation output
copy_before_refine_snapshot(files, snap) == snap

\* review_json.get('notes', ''), the last argument of refine_tests_with_notes
notes_argument(rj) == [text |-> rj.notes, len |-> rj.notes_len]

\* files_before_refine = copy.deepcopy(generated_files)
copy_before_refine(files, snap) == files

\* a bug: the working set is recorded in place of the copy taken after generation
metadata_test_cases_working_set(snap, files) == files

\* the 'test_cases' entry of the metadata record
metadata_test_cases(snap, files) == snap

\* a bug: the metadata record is built and not put into the files
with_metadata_not_inserted(files) == files

\* generated_files['metadata.json'] = json.dumps(ai_metadata)
with_metadata(files) == dict_set(files, "metadata.json", "ai_metadata")

FetchItem ==
    /\ pc = "fetch_issue"
    /\ trace' = Append(trace, "FetchItem")
    /\ \E ok \in BOOLEAN :
         IF ok
         THEN /\ epic' = jira_issue
              /\ pc' = "extract_contract"
              /\ UNCHANGED <<exc, failed>>
         ELSE /\ pc' = after_fetch_error
              /\ exc' = "FetchItem"
              /\ failed' = failed \cup {"FetchItem"}
              /\ UNCHANGED epic
    /\ UNCHANGED <<input_vars, service_vars, call_vars, resolver_vars, gate_vars, file_vars, review_vars,
                   ai_metadata, results, raised, effect_vars>>

GateCheck ==
    /\ pc = "gate"
    /\ trace' = Append(trace, "GateCheck")
    /\ gate_prompt' = build_gate_prompt(epic, contract)
    /\ \E resp \in GateResponses :
         IF gate_raises(resp)
         THEN /\ failed' = failed \cup {"GateCheck"}
              /\ pc' = after_gate_error
              /\ UNCHANGED gate_result
         ELSE /\ gate_result' = check_epic_eligibility(resp)
              /\ pc' = after_gate(gate_result')
              /\ UNCHANGED failed
    /\ UNCHANGED <<epic, input_vars, service_vars, call_vars, resolver_vars, file_vars, review_vars,
                   ai_metadata, results, exc, raised, effect_vars>>

\* the comment of the gate's refusal, and the return of the skipped result
GateNotify ==
    /\ pc = "gate_notify"
    /\ trace' = Append(trace, "NotifyGate")
    /\ \E ok \in BOOLEAN : comments' = Append(comments, [kind |-> "gate", ok |-> ok])
    /\ results' = [output_dir |-> "None", github_branch |-> "None", skipped |-> TRUE]
    /\ pc' = after_gate_notify
    /\ UNCHANGED <<epic, input_vars, service_vars, call_vars, resolver_vars, gate_vars, file_vars, review_vars,
                   ai_metadata, exc, raised, failed, disk, published>>

Generate ==
    /\ pc = "generate"
    /\ trace' = Append(trace, "Generate")
    /\ \/ /\ pc' = after_generate_error
          /\ exc' = IF pc' = "handler" THEN "Generate" ELSE exc
          /\ failed' = failed \cup {"Generate"}
          /\ UNCHANGED file_vars
       \/ /\ \E files \in GenOutputs :
               /\ generated_files' = files
               /\ snapshot' = files
          /\ pc' = "review"
          /\ UNCHANGED <<exc, failed>>
    /\ UNCHANGED <<epic, input_vars, service_vars, call_vars, resolver_vars, gate_vars, review_vars,
                   ai_metadata, results, raised, effect_vars>>

Review ==
    /\ pc = "review"
    /\ trace' = Append(trace, "Review")
    /\ \E resp \in ReviewResponses :
         IF review_raises(resp)
         THEN /\ failed' = failed \cup {"Review"}
              /\ pc' = after_review_error
              /\ UNCHANGED <<generated_files, review_json, corrected, avg>>
         ELSE LET rj == review_and_fix_tests(resp).review_json
                  corr == review_and_fix_tests(resp).updated_files
                  block == review_block(rj, corr, generated_files, threshold)
              IN /\ review_json' = rj
                 /\ corrected' = corr
                 /\ generated_files' = block.files
                 /\ avg' = IF block.raised THEN avg ELSE block.avg
                 /\ failed' = IF block.raised THEN failed \cup {"Review"} ELSE failed
                 /\ pc' = block.next
    /\ UNCHANGED <<epic, input_vars, service_vars, call_vars, resolver_vars, gate_vars, snapshot,
                   refine_response, refine_notes, files_before_refine, refined,
                   refined_meta, ai_metadata, results, exc, raised, effect_vars>>

Refine ==
    /\ pc = "refine"
    /\ trace' = Append(trace, "Refine")
    /\ files_before_refine' = copy_before_refine(generated_files, snapshot)
    /\ refine_notes' = notes_argument(review_json)
    /\ \E resp \in RefineResponses :
         /\ refine_response' = resp
         /\ IF refine_raises(resp)
            THEN /\ failed' = failed \cup {"Refine"}
                 /\ pc' = after_refine_error
                 /\ UNCHANGED <<generated_files, refined, refined_meta>>
            ELSE LET r == refine_tests_with_notes(resp)
                     files_after == IF r # <<>> THEN dict_update(generated_files, r)
                                    ELSE generated_files
                 IN /\ refined' = r
                    /\ IF r # <<>> /\ update_raises(r)
                       THEN \* raised inside the try block of the refinement
                            /\ generated_files' = update_applied(generated_files, r)
                            /\ failed' = failed \cup {"Refine"}
                            /\ pc' = after_refine_error
                            /\ UNCHANGED refined_meta
                       ELSE /\ generated_files' = files_after
                            /\ refined_meta' =
                                 [triggered |-> TRUE, applied |-> r # <<>>,
                                  changes |-> refine_changes(files_before_refine',
                                                             files_after, r),
                                  built |-> TRUE]
                            /\ pc' = "metadata"
                            /\ UNCHANGED failed
    /\ UNCHANGED <<epic, input_vars, service_vars, call_vars, resolver_vars, gate_vars, snapshot, review_json,
                   corrected, avg, ai_metadata, results, exc, raised, effect_vars>>

AssembleMetadata ==
    /\ pc = "metadata"
    /\ trace' = Append(trace, "AssembleMetadata")
    /\ refined_meta' = IF refined_meta.built THEN refined_meta
                       ELSE [NoMeta EXCEPT !.built = TRUE]
    /\ ai_metadata' =
         [built |-> TRUE, gate |-> gate_result,
          test_cases |-> metadata_test_cases(snapshot, generated_files),
          reviewer |-> review_json, refiner_output |-> refined,
          refinement_metadata |-> refined_meta']
    /\ generated_files' = with_metadata(generated_files)
    /\ pc' = after_metadata
    /\ UNCHANGED <<epic, input_vars, service_vars, call_vars, resolver_vars, gate_vars, snapshot,
                   review_json, corrected, refine_response, refine_notes,
                   files_before_refine, refined, avg, results, exc, raised, failed,
                   effect_vars>>

\* save_tests_locally; when it raises, the files written before stay on disk
LocalSave ==
    /\ pc = "save"
    /\ trace' = Append(trace, "LocalSave")
    /\ \/ /\ \E k \in 0..Len(generated_files) : disk' = SubSeq(generated_files, 1, k)
          /\ pc' = after_save_error
          /\ exc' = "LocalSave"
          /\ failed' = failed \cup {"LocalSave"}
          /\ UNCHANGED results
       \/ /\ disk' = generated_files
          /\ results' = [results EXCEPT !.output_dir = "output/KEY_timestamp"]
          /\ pc' = after_save
          /\ UNCHANGED <<exc, failed>>
    /\ UNCHANGED <<epic, input_vars, service_vars, call_vars, resolver_vars, gate_vars, file_vars, review_vars,
                   ai_metadata, raised, comments, published>>

\* commit_files_to_branch; when it raises, the files committed before stay
Publish ==
    /\ pc = "publish"
    /\ trace' = Append(trace, "Publish")
    /\ \/ /\ \E k \in 0..Len(generated_files) : published' = SubSeq(generated_files, 1, k)
          /\ pc' = after_publish_error
          /\ exc' = IF pc' = "handler" THEN "Publish" ELSE exc
          /\ failed' = failed \cup {"Publish"}
          /\ UNCHANGED results
       \/ /\ published' = generated_files
          /\ results' = [results EXCEPT !.github_branch = "auto/tests/KEY/timestamp"]
          /\ pc' = "notify"
          /\ UNCHANGED <<exc, failed>>
    /\ UNCHANGED <<epic, input_vars, service_vars, call_vars, resolver_vars, gate_vars, file_vars, review_vars,
                   ai_metadata, raised, comments, disk>>

\* the success comment: building the summary reads output_dir, which is
\* unbound when nothing was saved locally; that error is caught with the
\* errors of post_comment
Notify ==
    /\ pc = "notify"
    /\ trace' = Append(trace, "Notify")
    /\ IF save_locally
       THEN /\ \E ok \in BOOLEAN :
                 comments' = Append(comments, [kind |-> "success", ok |-> ok])
            /\ UNCHANGED failed
       ELSE /\ comments' = comments
            /\ failed' = failed \cup {"Notify"}
    /\ pc' = "returned"
    /\ UNCHANGED <<epic, input_vars, service_vars, call_vars, resolver_vars, gate_vars, file_vars, review_vars,
                   ai_metadata, results, exc, raised, disk, published>>

\* the top-level except block: one comment with the error text, then raise
Handler ==
    /\ pc = "handler"
    /\ trace' = Append(trace, "NotifyError")
    /\ \E ok \in BOOLEAN :
         /\ comments' = Append(comments, [kind |-> "error", ok |-> ok])
         /\ raised' = reraised(exc, ok)
    /\ pc' = "raised"
    /\ UNCHANGED <<epic, input_vars, service_vars, call_vars, resolver_vars, gate_vars, file_vars, review_vars,
                   ai_metadata, results, exc, failed, disk, published>>

(***************************************************************************)
(* Descriptions the tracker may hold.                                      *)
(***************************************************************************)
Lines ==
    { <<"GET", SP, "/users">>,
      <<SP, "post", SP, "/items", SP>>,
      <<"GET", TAB, "/users">>,
      <<"GET">>,
      <<"Spec:", SP, "http://h/openapi">>,
      <<"http://h/swagger.json">>,
      <<"http://h/docs/">>,
      <<"http://h/users">>,
      <<"Manage", SP, "orders.">>,
      <<>> }

AdfLines ==
    { <<"GET", SP, "/users">>,
      <<"post", SP, "/items">>,
      <<"Spec:", SP, "http://h/openapi">>,
      <<"Manage", SP, "orders.">>,
      <<>> }

RECURSIVE join_lines(_)
join_lines(ls) ==
    IF ls = <<>> THEN <<>>
    ELSE IF Len(ls) = 1 THEN Head(ls)
    ELSE Head(ls) \o <<NL>> \o join_lines(Tail(ls))

PlainTexts == { join_lines(ls) : ls \in UNION { [1..k -> Lines] : k \in 0..MaxLines } }

Blocks == { BlockNode(ty, l) : ty \in {"paragraph", "heading", "codeBlock"}, l \in AdfLines }

AdfDocs == { DescAdf(bs) : bs \in UNION { [1..k -> Blocks] : k \in 0..MaxParas } }

Descriptions ==
    {DescNone} \cup { DescStr(t) : t \in PlainTexts } \cup AdfDocs \cup {DescOther(<<"42">>)}

\* the descriptions of the pipeline runs: none, a URL with endpoint lines,
\* endpoint lines in a rich document
PipelineDescriptions ==
    { DescNone,
      DescStr(<<"Spec:", SP, "http://h/openapi", NL, "GET", SP, "/users">>),
      DescAdf(<<BlockNode("paragraph", <<"GET", SP, "/users">>)>>) }

(***************************************************************************)
(* core/epic_runner.py : run_polling_runner                                *)
(* The runner sees process_epic as one call that returns or raises.        *)
(***************************************************************************)
NoKey == "None"
EpicKeys == {"KAN-1", "KAN-2"}
Prefixes == {"", "KAN"}

\* the results of find_recent_epics_by_prefix: up to max_per_cycle issues,
\* each with its key or with none
IssueLists == UNION { [1..n -> EpicKeys \cup {NoKey}] : n \in 0..MaxPerCycle }

\* how a call of process_epic ends for the runner
RunOutcomes == {"completed", "skipped", "raised", "interrupted"}

\* a bug: the key is added whether the call returned or raised
processed_after_any(cache, key, outcome) ==
    IF outcome # "interrupted" THEN cache \cup {key} ELSE cache

\* a bug: an exception of process_epic ends the runner
after_run_stop_on_raise(outcome) ==
    IF outcome \in {"interrupted", "raised"} THEN "exited" ELSE "loop"

\* except Exception: log the failure and go on with the for loop;
\* KeyboardInterrupt passes to the outer handler, which breaks
after_run(outcome) == IF outcome = "interrupted" THEN "exited" ELSE "loop"

\* recently_processed.add(key) follows the call inside the try block
processed_after(cache, key, outcome) ==
    IF outcome \in {"completed", "skipped"} THEN cache \cup {key} ELSE cache

\* a bug: the cache is not looked at
skips_key_never(cache, key) == key = NoKey

\* if not key: continue / if key in recently_processed: continue
skips_key(cache, key) == key = NoKey \/ key \in cache

RunnerFrame == UNCHANGED <<pipeline_vars, prefix, webhook_vars>>

\* the start of run_polling_runner: without a prefix it returns at once
RunnerStart ==
    /\ runner_pc = "start"
    /\ runner_pc' = IF prefix = "" THEN "exited" ELSE "search"
    /\ recently_processed' = {}
    /\ UNCHANGED <<cycle, issues, issue_idx, invocations>>
    /\ RunnerFrame

\* find_recent_epics_by_prefix at the top of the while loop
RunnerSearch ==
    /\ runner_pc = "search"
    /\ cycle < MaxCycles
    /\ cycle' = cycle + 1
    /\ \/ \E found \in IssueLists :
            /\ issues' = found
            /\ issue_idx' = 1
            /\ runner_pc' = "loop"
       \/ \* except Exception: log, sleep, next cycle
          /\ runner_pc' = "sleep"
          /\ UNCHANGED <<issues, issue_idx>>
       \/ \* except KeyboardInterrupt: break
          /\ runner_pc' = "exited"
          /\ UNCHANGED <<issues, issue_idx>>
    /\ UNCHANGED <<recently_processed, invocations>>
    /\ RunnerFrame

\* one iteration of the for loop over the issues, and its end
RunnerIssue ==
    /\ runner_pc = "loop"
    /\ IF issue_idx > Len(issues)
       THEN /\ runner_pc' = "sleep"
            /\ UNCHANGED <<issue_idx, recently_processed, invocations>>
       ELSE LET key == issues[issue_idx]
            IN IF skips_key(recently_processed, key)
               THEN /\ issue_idx' = issue_idx + 1
                    /\ UNCHANGED <<runner_pc, recently_processed, invocations>>
               ELSE \E outcome \in RunOutcomes :
                      /\ invocations' = Append(invocations,
                                               [key |-> key, cycle |-> cycle,
                                                outcome |-> outcome])
                      /\ recently_processed' =
                           processed_after(recently_processed, key, outcome)
                      /\ runner_pc' = after_run(outcome)
                      /\ issue_idx' = issue_idx + 1
    /\ UNCHANGED <<cycle, issues>>
    /\ RunnerFrame

\* time.sleep(sleep_seconds), which KeyboardInterrupt may end
RunnerSleep ==
    /\ runner_pc = "sleep"
    /\ runner_pc' \in {"search", "exited"}
    /\ UNCHANGED <<cycle, issues, issue_idx, recently_processed, invocations>>
    /\ RunnerFrame

(***************************************************************************)
(* core/webhooks.py : jira_webhook, and the runs it starts in the          *)
(* background.  A run is process_epic(issue_key) with its defaults: it     *)
(* saves locally and publishes.  The runs of several deliveries are        *)
(* interleaved step by step, and the clock ticks between any two steps.    *)
(***************************************************************************)
Runs == 1..MaxRuns
WebhookKeys == EpicKeys \cup {"OPS-1", NoKey}

\* the project part of an issue key
key_project(key) ==
    CASE key \in EpicKeys -> "KAN"
      [] key = "OPS-1" -> "OPS"
      [] OTHER -> ""

\* a name made of an issue key and a timestamp with a resolution of one second
NoName == [key |-> NoKey, ts |-> 0 - 1]
stamped_name(key, now) == [key |-> key, ts |-> now]

\* f"auto/tests/{issue_key}/{timestamp}", timestamp = utcnow() to the second
branch_name_of(key, now) == stamped_name(key, now)

\* Path('output') / f"{issue_key}_{timestamp}", timestamp = now() to the second
output_dir_of(key, now) == stamped_name(key, now)

WebhookFrame == UNCHANGED <<pipeline_vars, prefix, runner_vars>>

\* the handler of POST /jira/webhook for delivery r
jira_webhook(r) ==
    /\ run_pc[r] = "webhook"
    /\ run_pc' = [run_pc EXCEPT ![r] =
                    IF run_key[r] = NoKey THEN "rejected"
                    ELSE IF prefix # "" /\ key_project(run_key[r]) # prefix THEN "ignored"
                    ELSE "queued"]
    /\ UNCHANGED <<clock, run_key, run_dir, run_branch, refs>>
    /\ WebhookFrame

\* the background task up to the local save: the stages before it end in
\* the metadata record, in the gate's early exit or in a fatal failure
RunStages(r) ==
    /\ run_pc[r] = "queued"
    /\ \E next \in {"save", "skipped", "failed"} : run_pc' = [run_pc EXCEPT ![r] = next]
    /\ UNCHANGED <<clock, run_key, run_dir, run_branch, refs>>
    /\ WebhookFrame

\* save_tests_locally: mkdir(parents=True, exist_ok=True) takes a directory
\* that exists already
RunSave(r) ==
    /\ run_pc[r] = "save"
    /\ run_dir' = [run_dir EXCEPT ![r] = output_dir_of(run_key[r], clock)]
    /\ \E next \in {"publish", "failed"} : run_pc' = [run_pc EXCEPT ![r] = next]
    /\ UNCHANGED <<clock, run_key, run_branch, refs>>
    /\ WebhookFrame

\* commit_files_to_branch: the repository refuses to create a reference
\* that exists, and create_git_ref raises
RunPublish(r) ==
    /\ run_pc[r] = "publish"
    /\ LET name == branch_name_of(run_key[r], clock)
       IN /\ run_branch' = [run_branch EXCEPT ![r] = name]
          /\ IF name \in refs
             THEN /\ run_pc' = [run_pc EXCEPT ![r] = "failed"]
                  /\ UNCHANGED refs
             ELSE /\ refs' = refs \cup {name}
                  /\ \E next \in {"done", "failed"} :
                       run_pc' = [run_pc EXCEPT ![r] = next]
    /\ UNCHANGED <<clock, run_key, run_dir>>
    /\ WebhookFrame

\* a second passes
Tick ==
    /\ clock < MaxClock
    /\ clock' = clock + 1
    /\ \E r \in Runs : run_pc[r] \notin {"idle"}
    /\ UNCHANGED <<run_key, run_pc, run_dir, run_branch, refs>>
    /\ WebhookFrame

\* no runner and no webhook delivery
ServiceIdle ==
    /\ prefix = ""
    /\ runner_pc = "idle"
    /\ cycle = 0
    /\ issues = <<>>
    /\ issue_idx = 0
    /\ recently_processed = {}
    /\ invocations = <<>>
    /\ clock = 0
    /\ run_key = [r \in Runs |-> NoKey]
    /\ run_pc = [r \in Runs |-> "idle"]
    /\ run_dir = [r \in Runs |-> NoName]
    /\ run_branch = [r \in Runs |-> NoName]
    /\ refs = {}

(***************************************************************************)
(* Specifications.                                                         *)
(***************************************************************************)
\* the locals at the start of a call
RunLocalsInit ==
    /\ urls_to_try = <<>>
    /\ try_idx = 0
    /\ http_log = <<>>
    /\ contract = NoContract
    /\ gate_prompt = NoPrompt
    /\ gate_result = NoGate
    /\ generated_files = <<>>
    /\ snapshot = <<>>
    /\ review_json = NoReview
    /\ corrected = <<>>
    /\ refine_response = NoRefineResponse
    /\ refine_notes = NoNotes
    /\ files_before_refine = <<>>
    /\ refined = <<>>
    /\ refined_meta = NoMeta
    /\ avg = NoAvg
    /\ ai_metadata = NoAiMetadata
    /\ results = NoResults
    /\ exc = "None"
    /\ raised = "None"
    /\ trace = <<>>
    /\ failed = {}
    /\ comments = <<>>
    /\ disk = <<>>
    /\ published = <<>>
    /\ returned = NoReturn

\* one run of process_epic
Init ==
    /\ pc = "fetch_issue"
    /\ entry = "process_epic"
    /\ jira_issue \in PipelineDescriptions
    /\ epic = DescNone
    /\ fetch_openapi = TRUE
    /\ save_locally \in BOOLEAN
    /\ save_to_github \in BOOLEAN
    /\ threshold \in Thresholds
    /\ response = NoResponse
    /\ RunLocalsInit
    /\ ServiceIdle

Next ==
    \/ FetchItem
    \/ extract_contract
    \/ fetch_openapi_spec
    \/ GateCheck
    \/ GateNotify
    \/ Generate
    \/ Review
    \/ Refine
    \/ AssembleMetadata
    \/ LocalSave
    \/ Publish
    \/ Notify
    \/ Handler

Spec == Init /\ [][Next]_vars

\* every call made by a run returns or raises: a run that can take a step
\* takes one
FairSpec == Spec /\ WF_vars(Next)

\* extract_contract called on its own, as the tests of the repository do
InitContract ==
    /\ pc = "extract_contract"
    /\ entry = "extract_contract"
    /\ jira_issue \in Descriptions
    /\ epic = jira_issue
    /\ fetch_openapi \in BOOLEAN
    /\ save_locally = FALSE
    /\ save_to_github = FALSE
    /\ threshold = 7
    /\ response = NoResponse
    /\ RunLocalsInit
    /\ ServiceIdle

NextContract == extract_contract \/ fetch_openapi_spec

SpecContract == InitContract /\ [][NextContract]_vars

\* the completions handed to parse_test_files
RECURSIVE words_apart(_)
words_apart(text) ==
    \/ Len(text) < 2
    \/ /\ ~(text[1] = "x" /\ text[2] = "x")
       /\ words_apart(Tail(text))

\* every completion of up to MaxGenSymbols symbols
SymbolResponses ==
    { t \in UNION { [1..n -> GenSymbols] : n \in 0..MaxGenSymbols } : words_apart(t) }

\* the pieces of longer completions: blocks for a.py and b.py, a block with
\* no content, a block that is not ended, a word, a newline
Segments ==
    { <<HdrA, NL, "x", EndMarker>>, <<HdrA, NL, EndMarker>>,
      <<HdrB, NL, "x", NL, EndMarker>>, <<HdrA, NL, "x">>, <<"x">>, <<NL>> }

RECURSIVE flatten(_)
flatten(pieces) == IF pieces = <<>> THEN <<>> ELSE Head(pieces) \o flatten(Tail(pieces))

\* the completions made of up to MaxBlocks pieces
BlockResponses ==
    { t \in { flatten(ps) : ps \in UNION { [1..n -> Segments] : n \in 1..MaxBlocks } } :
        words_apart(t) }

GenResponses == SymbolResponses \cup BlockResponses

\* the parsing functions of the generation, review and gate stages called on
\* their own, each with one completion
ParserFunctions == {"parse_test_files", "review_and_fix_tests", "check_epic_eligibility"}

ParserInputs(fn) ==
    CASE fn = "parse_test_files" -> GenResponses
      [] fn = "review_and_fix_tests" -> ReviewContents
      [] OTHER -> GateContents

InitParsers ==
    /\ pc = "call"
    /\ entry \in ParserFunctions
    /\ response \in ParserInputs(entry)
    /\ jira_issue = DescNone
    /\ epic = DescNone
    /\ fetch_openapi = FALSE
    /\ save_locally = FALSE
    /\ save_to_github = FALSE
    /\ threshold = 7
    /\ RunLocalsInit
    /\ ServiceIdle

ParserFrame ==
    UNCHANGED <<epic, input_vars, service_vars, response, resolver_vars, gate_vars, file_vars,
                review_vars, ai_metadata, results, exc, trace, failed, effect_vars>>

ParseTestFiles ==
    /\ pc = "call" /\ entry = "parse_test_files"
    /\ returned' = [fn |-> entry, files |-> parse_test_files(response)]
    /\ pc' = "returned"
    /\ UNCHANGED raised
    /\ ParserFrame

ReviewAndFixTests ==
    /\ pc = "call" /\ entry = "review_and_fix_tests"
    /\ IF review_raises(response)
       THEN /\ raised' = "AttributeError"
            /\ pc' = "raised"
            /\ UNCHANGED returned
       ELSE /\ returned' = [fn |-> entry,
                            review_json |-> review_and_fix_tests(response).review_json,
                            updated_files |-> review_and_fix_tests(response).updated_files]
            /\ pc' = "returned"
            /\ UNCHANGED raised
    /\ ParserFrame

CheckEpicEligibility ==
    /\ pc = "call" /\ entry = "check_epic_eligibility"
    /\ IF gate_raises(response)
       THEN \* TypeError, or AttributeError for a JSON list or string
            /\ raised' = IF response.form = "array" THEN "AttributeError" ELSE "TypeError"
            /\ pc' = "raised"
            /\ UNCHANGED returned
       ELSE /\ returned' = [fn |-> entry, gate |-> check_epic_eligibility(response)]
            /\ pc' = "returned"
            /\ UNCHANGED raised
    /\ ParserFrame

NextParsers == ParseTestFiles \/ ReviewAndFixTests \/ CheckEpicEligibility

SpecParsers == InitParsers /\ [][NextParsers]_vars

\* process_epic is not running: the state of a process that has made no call
PipelineIdle ==
    /\ pc = "idle"
    /\ entry = "none"
    /\ jira_issue = DescNone
    /\ epic = DescNone
    /\ fetch_openapi = FALSE
    /\ save_locally = FALSE
    /\ save_to_github = FALSE
    /\ threshold = 7
    /\ response = NoResponse
    /\ RunLocalsInit

\* the polling runner, for MaxCycles searches
InitRunner ==
    /\ PipelineIdle
    /\ prefix \in Prefixes
    /\ runner_pc = "start"
    /\ cycle = 0
    /\ issues = <<>>
    /\ issue_idx = 0
    /\ recently_processed = {}
    /\ invocations = <<>>
    /\ clock = 0
    /\ run_key = [r \in Runs |-> NoKey]
    /\ run_pc = [r \in Runs |-> "idle"]
    /\ run_dir = [r \in Runs |-> NoName]
    /\ run_branch = [r \in Runs |-> NoName]
    /\ refs = {}

NextRunner == RunnerStart \/ RunnerSearch \/ RunnerIssue \/ RunnerSleep

SpecRunner == InitRunner /\ [][NextRunner]_vars

\* MaxRuns webhook deliveries and the runs they start
InitWebhook ==
    /\ PipelineIdle
    /\ prefix \in Prefixes
    /\ runner_pc = "idle"
    /\ cycle = 0
    /\ issues = <<>>
    /\ issue_idx = 0
    /\ recently_processed = {}
    /\ invocations = <<>>
    /\ clock = 0
    /\ run_key \in [Runs -> WebhookKeys]
    /\ run_pc = [r \in Runs |-> "webhook"]
    /\ run_dir = [r \in Runs |-> NoName]
    /\ run_branch = [r \in Runs |-> NoName]
    /\ refs = {}

NextWebhook ==
    \/ \E r \in Runs : jira_webhook(r)
    \/ \E r \in Runs : RunStages(r)
    \/ \E r \in Runs : RunSave(r)
    \/ \E r \in Runs : RunPublish(r)
    \/ Tick

SpecWebhook == InitWebhook /\ [][NextWebhook]_vars

(***************************************************************************)
(* Claims about process_epic (checked under Spec).                         *)
(***************************************************************************)
InTrace(stage) == \E i \in 1..Len(trace) : trace[i] = stage

ErrorComments == { i \in 1..Len(comments) : comments[i].kind = "error" }

\* C1: in every run in which the review returned a result (here: one whose
\* score fields are all numbers), refinement is invoked if and only if
\* (coverage_score + criteria_score + (1 if syntax_ok else 0)) / 3 <= threshold,
\* an average equal to the threshold included.
C1_RefineIffAverage ==
    (review_json.present /\ review_json.non_numeric = {})
    => ((pc = "refine" \/ InTrace("Refine"))
          <=> review_sum(review_json) <= 3 * threshold)

\* C2: the stages of a run are invoked in the order FetchItem, ResolveContract,
\* GateCheck, Generate, Review, (Refine), AssembleMetadata, local save,
\* Publish, Notify, each after its predecessor, none out of order.
StageRank(stage) ==
    CASE stage = "FetchItem" -> 1
      [] stage = "ResolveContract" -> 2
      [] stage = "GateCheck" -> 3
      [] stage = "Generate" -> 4
      [] stage = "Review" -> 5
      [] stage = "Refine" -> 6
      [] stage = "AssembleMetadata" -> 7
      [] stage = "LocalSave" -> 8
      [] stage = "Publish" -> 9
      [] OTHER -> 10

StagePredecessors(stage) ==
    CASE stage = "ResolveContract" -> {"FetchItem"}
      [] stage = "GateCheck" -> {"ResolveContract"}
      [] stage = "Generate" -> {"GateCheck"}
      [] stage = "Review" -> {"Generate"}
      [] stage = "Refine" -> {"Review"}
      [] stage = "AssembleMetadata" -> {"Review", "Refine"}
      [] stage = "LocalSave" -> {"AssembleMetadata"}
      [] stage = "Publish" -> {"AssembleMetadata", "LocalSave"}
      [] stage = "Notify" -> {"Publish"}
      [] stage = "NotifyGate" -> {"GateCheck"}
      [] OTHER -> {}

C2_StageOrder ==
    /\ \A i \in 1..(Len(trace) - 1) : StageRank(trace[i]) < StageRank(trace[i + 1])
    /\ \A i \in 1..Len(trace) :
         \/ trace[i] \in {"FetchItem", "NotifyError"}
         \/ i > 1 /\ trace[i - 1] \in StagePredecessors(trace[i])
    /\ Len(trace) > 0 => trace[1] = "FetchItem"

C2_Witness ==
    /\ pc = "returned"
    /\ trace = <<"FetchItem", "ResolveContract", "GateCheck", "Generate", "Review",
                 "Refine", "AssembleMetadata", "LocalSave", "Publish", "Notify">>

\* C3: when the gate returns should_proceed = false the run ends with the
\* skipped result after one comment attempt whose failure changes nothing;
\* Generate, Review, Refine, local save and Publish are never invoked, and
\* the result differs from a completed run's (no skipped flag) and from a
\* fatal failure (an exception).
GateRefused == gate_result.present /\ ~gate_result.should_proceed

C3_GateSkip ==
    /\ GateRefused =>
         /\ pc \in {"gate_notify", "returned"}
         /\ \A stage \in {"Generate", "Review", "Refine", "AssembleMetadata",
                          "LocalSave", "Publish", "Notify", "NotifyError"} :
               ~InTrace(stage)
         /\ disk = <<>> /\ published = <<>>
         /\ exc = "None" /\ raised = "None"
         /\ pc = "returned" =>
              /\ results = [output_dir |-> "None", github_branch |-> "None",
                            skipped |-> TRUE]
              /\ Len(comments) = 1
              /\ comments[1].kind = "gate"
    /\ (pc = "returned" /\ ~GateRefused) => ~results.skipped

C3_Witness ==
    /\ pc = "returned"
    /\ results.skipped
    /\ comments = <<[kind |-> "gate", ok |-> FALSE]>>

\* C4: an exception raised inside GateCheck, Review or Refine never reaches
\* the top-level handler: after a gate exception Generate is still invoked,
\* after a review or refine exception the run still reaches AssembleMetadata
\* and then the save and publish steps that were asked for.
C4_AdvisoryStagesContained ==
    /\ exc \notin {"GateCheck", "Review", "Refine"}
    /\ "GateCheck" \in failed => (pc = "generate" \/ InTrace("Generate"))
    /\ (failed \cap {"Review", "Refine"} # {}) =>
         /\ pc = "metadata" \/ InTrace("AssembleMetadata")
         /\ (InTrace("AssembleMetadata") /\ save_locally) =>
              (pc = "save" \/ InTrace("LocalSave"))
         /\ (InTrace("AssembleMetadata") /\ save_to_github
               /\ "LocalSave" \notin failed) =>
              (pc \in {"save", "publish"} \/ InTrace("Publish"))

C4_Witness ==
    /\ pc = "returned"
    /\ {"GateCheck", "Refine"} \subseteq failed
    /\ results.output_dir # "None"
    /\ results.github_branch # "None"

\* C5: if FetchItem or Generate raises, the run is fatal: no later stage is
\* invoked, nothing is saved or published, one error comment is attempted and
\* the exception is re-raised to the caller.
C5_FatalStages ==
    /\ \A stage \in {"FetchItem", "Generate"} : stage \in failed => exc = stage
    /\ exc \in {"FetchItem", "Generate"} =>
         /\ pc \in {"handler", "raised"}
         /\ disk = <<>> /\ published = <<>>
         /\ results = NoResults
         /\ pc = "handler" => trace[Len(trace)] = exc
         /\ pc = "raised" =>
              /\ trace[Len(trace)] = "NotifyError"
              /\ trace[Len(trace) - 1] = exc
              /\ Len(comments) = 1
              /\ comments[1].kind = "error"
              /\ raised = exc

C5_Witness ==
    /\ pc = "raised"
    /\ raised = "Generate"
    /\ InTrace("GateCheck")

C7_PublishFailureLogged ==
    (results.output_dir # "None" /\ failed \cap {"Publish", "Notify"} # {}) =>
        /\ pc \notin {"handler", "raised"}
        /\ disk = generated_files

\* C13: right after refinement the change records are: one "added" record
\* for each path that is in the files now and was not before, one "modified"
\* record with the digests and line counts of both versions for each path
\* whose content differs, no record for an unchanged path; the records follow
\* the order of the files, which keep the old paths in their old order and
\* have the new paths after them.
RecordsOf(path) ==
    { k \in 1..Len(refined_meta.changes) : refined_meta.changes[k].path = path }

PositionOf(path) == CHOOSE i \in 1..Len(generated_files) : generated_files[i].path = path

C13_ChangeRecords ==
    (pc = "metadata" /\ refined_meta.triggered) =>
      LET before == files_before_refine
          after == generated_files
          ch == refined_meta.changes
      IN /\ \A k \in 1..Len(ch) : ch[k].path \in dict_keys(after)
         /\ \A k \in 1..(Len(ch) - 1) :
               PositionOf(ch[k].path) < PositionOf(ch[k + 1].path)
         /\ Len(after) >= Len(before)
         /\ \A i \in 1..Len(before) : after[i].path = before[i].path
         /\ \A i \in 1..Len(after) :
               LET path == after[i].path
                   old == dict_get(before, path)
                   new == after[i].content
               IN IF path \notin dict_keys(before)
                  THEN /\ Cardinality(RecordsOf(path)) = 1
                       /\ \A k \in RecordsOf(path) :
                             ch[k] = [path |-> path, change |-> "added"]
                  ELSE IF old # new
                  THEN /\ Cardinality(RecordsOf(path)) = 1
                       /\ \A k \in RecordsOf(path) :
                             /\ ch[k].change = "modified"
                             /\ ch[k].before_sha256 = sha256(old)
                             /\ ch[k].after_sha256 = sha256(new)
                             /\ ch[k].before_sha256 # ch[k].after_sha256
                             /\ ch[k].before_lines = line_count(old)
                             /\ ch[k].after_lines = line_count(new)
                  ELSE RecordsOf(path) = {}

\* the refinement returned a new file and then a changed one; a third file
\* stayed as it was
C13_Witness ==
    /\ pc = "metadata"
    /\ refined_meta.triggered
    /\ Len(refined) = 2 /\ refined[1].path = "test_new.py"
    /\ "test_b.py" \in dict_keys(files_before_refine)
    /\ Len(refined_meta.changes) = 2
    /\ refined_meta.changes[1].path = "test_a.py"
    /\ refined_meta.changes[1].change = "modified"
    /\ refined_meta.changes[2] = [path |-> "test_new.py", change |-> "added"]

\* C14: no stage drops a path: every path of the generation output is in the
\* working files after the review and after the refinement, in the files
\* handed to the local save and to the publication, and among the files
\* written and committed by them.
C14_PathsNeverDropped ==
    LET generated == dict_keys(snapshot) IN
    /\ generated \subseteq dict_keys(generated_files)
    /\ InTrace("Refine") =>
         /\ generated \subseteq dict_keys(files_before_refine)
         /\ dict_keys(files_before_refine) \subseteq dict_keys(generated_files)
    /\ results.output_dir # "None" => generated \subseteq dict_keys(disk)
    /\ results.github_branch # "None" => generated \subseteq dict_keys(published)

\* two files generated, one corrected by the review, one added by the
\* refinement, all of them saved and committed with the metadata file
C14_Witness ==
    /\ pc = "returned"
    /\ Len(snapshot) = 2
    /\ dict_get(files_before_refine, "test_a.py") = "a2"
    /\ refined = <<Item("test_new.py", "n1")>>
    /\ Len(disk) = 4
    /\ published = disk

\* C15: the copy of the files recorded in the metadata is the output of the
\* generation: it is taken when the generation returns, no later step changes
\* it, and the metadata record holds it whatever the review and the
\* refinement did to the working files.
C15_SnapshotIsGenerationOutput ==
    [][/\ (pc = "generate" /\ pc' = "review") => snapshot' = generated_files'
       /\ pc # "generate" => snapshot' = snapshot
       /\ ai_metadata'.built => ai_metadata'.test_cases = snapshot']_vars

\* the metadata was built after the review and the refinement both changed
\* the generated file
C15_Witness ==
    /\ ai_metadata.built
    /\ dict_get(ai_metadata.test_cases, "test_a.py") = "a1"
    /\ dict_get(files_before_refine, "test_a.py") = "a2"
    /\ dict_get(generated_files, "test_a.py") = "a3"

\* C16: every run in which the generation returned (none skipped, none
\* failed before) builds the metadata record and puts it into the files as
\* metadata.json before the local save and the publication get them; the
\* record holds the gate decision, the copy taken after generation, the
\* review result and the refinement outcome.
C16_MetadataInFinalSet ==
    /\ (InTrace("Generate") /\ "Generate" \notin failed) =>
         (pc \in {"review", "refine", "metadata"} \/ InTrace("AssembleMetadata"))
    /\ (pc \in {"save", "publish"} \/ InTrace("LocalSave") \/ InTrace("Publish")) =>
         InTrace("AssembleMetadata")
    /\ InTrace("AssembleMetadata") =>
         /\ "metadata.json" \in dict_keys(generated_files)
         /\ ai_metadata.built
         /\ ai_metadata.gate = gate_result
         /\ ai_metadata.test_cases = snapshot
         /\ ai_metadata.reviewer = review_json
         /\ ai_metadata.refiner_output = refined
         /\ ai_metadata.refinement_metadata = refined_meta
         /\ ai_metadata.refinement_metadata.built
    /\ results.output_dir # "None" => "metadata.json" \in dict_keys(disk)
    /\ results.github_branch # "None" => "metadata.json" \in dict_keys(published)

\* the gate and the review raised, and the files were still saved and
\* committed with the metadata file
C16_Witness ==
    /\ pc = "returned"
    /\ {"GateCheck", "Review"} \subseteq failed
    /\ ~ai_metadata.gate.present /\ ~ai_metadata.reviewer.present
    /\ "metadata.json" \in dict_keys(disk)
    /\ "metadata.json" \in dict_keys(published)

\* C20: the two signals written into the gate's prompt are what the
\* resolver's detectors find in the normalized description: the URL signal is
\* true iff extract_openapi_url finds a URL, the endpoint signal is true iff
\* extract_endpoints finds a line, whatever variant the contract has.
C20_GateSignalsAreDetectors ==
    LET description == normalize_description(epic) IN
    gate_prompt.built =>
        /\ gate_prompt.openapi_url_present <=> extract_openapi_url(description) # NoUrl
        /\ gate_prompt.endpoints_listed <=> extract_endpoints(description) # <<>>

(***************************************************************************)
(* Claims about contract resolution (checked under SpecContract).          *)
(***************************************************************************)
ContractVariants ==
    { {"openapi_url", "openapi_spec"}, {"openapi_url"}, {"endpoints"}, {"description"} }

C9_UrlPrecedence ==
    LET desc == normalize_description(epic) IN
    (/\ pc = "returned"
     /\ extract_openapi_url(desc) # NoUrl
     /\ extract_endpoints(desc) # <<>>)
    => /\ "openapi_url" \in contract.keys
       /\ "endpoints" \notin contract.keys
       /\ contract.openapi_url = extract_openapi_url(desc)

C9_Witness ==
    LET desc == normalize_description(epic) IN
    /\ pc = "returned"
    /\ extract_openapi_url(desc) # NoUrl
    /\ extract_endpoints(desc) # <<>>
    /\ Len(http_log) = 3
    /\ \A i \in 1..3 : ~http_log[i].returned
    /\ contract.keys = {"openapi_url"}

\* C10: the network reads follow a fixed order and stop at the first one that
\* returns: a URL ending in .json, .yaml or .yml is read verbatim only; a URL
\* with no such ending is read verbatim, then with .json, then with .yaml
\* appended; nothing is read after a read that returned.
C10_FetchOrder ==
    LET url == contract.openapi_url
        n == Len(http_log)
    IN /\ n > 0 => url # NoUrl /\ fetch_openapi
       /\ n > 0 /\ url[Len(url)] \in {".json", ".yaml", ".yml"} => n = 1
       /\ n <= 3
       /\ n >= 1 => http_log[1].url = url
       /\ n >= 2 => http_log[2].url = url \o <<".json">>
       /\ n >= 3 => http_log[3].url = url \o <<".yaml">>
       /\ \A i \in 1..n : http_log[i].returned => i = n
       /\ (pc = "fetch_openapi_spec" /\ n > 0) => ~http_log[n].returned

\* the .json candidate returned a document and the .yaml candidate was never read
C10_Witness ==
    /\ pc = "returned"
    /\ Len(http_log) = 2
    /\ ~http_log[1].returned
    /\ http_log[2].returned
    /\ "openapi_spec" \in contract.keys

\* the reads that found no document: the connection failed, the status was
\* an error, the read failed otherwise, or the body gave no document to the
\* JSON parser and none to the YAML parser (a body that is not YAML, or an
\* empty body, for which yaml.safe_load returns None)
CandidateFailed(resp) ==
    resp \in {"conn_error", "http_error", "other_error", "garbage", "yaml_none"}

\* C11: a candidate that fails never ends the chain: after a failed read the
\* next candidate is read, and the URL-only contract is returned after failed
\* reads only when every candidate of the chain was read.
C11_FailedCandidateAdvances ==
    LET n == Len(http_log) IN
    (n > 0 /\ CandidateFailed(http_log[n].resp)) =>
        /\ pc = "returned" => n = Len(urls_to_try)
        /\ pc = "fetch_openapi_spec" => try_idx = n + 1

\* C12: no failure of a network read or of a parser leaves contract
\* resolution as an exception; when every candidate raised, the contract
\* returned is the URL-only variant holding the URL found in the description.
C12_FetchFailuresContained ==
    /\ pc # "raised" /\ raised = "None" /\ failed = {}
    /\ (/\ pc = "returned"
        /\ http_log # <<>>
        /\ \A i \in 1..Len(http_log) : parsed_value(http_log[i].resp) = "raise")
       => /\ Len(http_log) = Len(urls_to_try)
          /\ contract = UrlContract(extract_openapi_url(normalize_description(epic)))

\* a connection error, an HTTP error status and a body that is neither JSON
\* nor YAML, one after the other
C12_Witness ==
    /\ pc = "returned"
    /\ Len(http_log) = 3
    /\ http_log[1].resp = "conn_error"
    /\ http_log[2].resp = "http_error"
    /\ http_log[3].resp = "garbage"
    /\ contract.keys = {"openapi_url"}

(***************************************************************************)
(* Claims about the parsing functions (checked under SpecParsers).         *)
(***************************************************************************)
\* a begin marker closed by dashes and a newline, with an end marker behind
HasBlock(text) ==
    \E i, k, j \in 1..Len(text) :
        /\ text[i] \in Headers
        /\ i <= k /\ text[k] \in Headers \cup {EndMarker}
        /\ k + 1 <= Len(text) /\ text[k + 1] = NL
        /\ k + 2 <= j /\ text[j] = EndMarker

\* C17: parse_test_files never returns an empty file set; for a completion
\* without a delimited block it returns one file, named generated_tests.txt,
\* that holds the whole completion.
C17_ParserNeverEmpty ==
    returned.fn = "parse_test_files" =>
        /\ returned.files # <<>>
        /\ ~HasBlock(response) => returned.files = <<Item(FallbackPath, response)>>
        /\ HasBlock(response) =>
              \A i \in 1..Len(returned.files) : returned.files[i].content # response

\* a begin marker with no newline behind it, a word and an end marker: no
\* block, the whole completion is the one file
C17_Witness ==
    /\ returned.fn = "parse_test_files"
    /\ response = <<HdrA, "x", EndMarker>>
    /\ returned.files = <<Item(FallbackPath, response)>>

\* C18: review_and_fix_tests never raises on a completion that is not the
\* expected JSON object (text that is not JSON, or a JSON value that is no
\* object): it returns the zero-score result with the completion, cut to a
\* bounded length, as notes, and no corrected files.
C18_ReviewNeverRaises ==
    (entry = "review_and_fix_tests" /\ response.form \in {"text", "array", "scalar"}) =>
        /\ pc # "raised"
        /\ pc = "returned" =>
              /\ returned.review_json.score = 0
              /\ returned.review_json.coverage_score = 0
              /\ returned.review_json.criteria_score = 0
              /\ ~returned.review_json.syntax_ok
              /\ returned.review_json.notes = "raw"
              /\ returned.review_json.notes_len <= NotesLimit
              /\ returned.updated_files = <<>>

\* C19: check_epic_eligibility never raises on a completion; a completion
\* that is not a JSON object is decided by the keyword heuristic (an
\* affirmative word gives should_proceed = true); what is returned is always
\* a boolean should_proceed and a reason string of at most 500 characters.
C19_GateNeverRaises ==
    entry = "check_epic_eligibility" =>
        /\ pc # "raised"
        /\ pc = "returned" =>
              /\ returned.gate.should_proceed \in BOOLEAN
              /\ returned.gate.reason.is_str
              /\ returned.gate.reason.len <= ReasonLimit
              /\ (response.form \in {"text", "array", "scalar"} /\ response.affirmative)
                    => returned.gate.should_proceed

(***************************************************************************)
(* Claims about the refinement and review corrections (checked under Spec).*)
(***************************************************************************)
\* the completion is a single JSON object with a 'files' mapping
ParsesAsFilesMapping(resp) == resp.form = "object" /\ resp.files_kind = "mapping"

\* C21: when the refinement oracle answered and its response cannot be parsed
\* as a single object containing a files mapping, refine_tests_with_notes
\* returns the empty correction set and nothing is raised; the run goes on
\* with the files as they were before refinement and the metadata records
\* triggered = true, applied = false and no change records.
C21_UnparseableRefinement ==
    (InTrace("Refine") /\ ~refine_raises(refine_response)
       /\ ~ParsesAsFilesMapping(refine_response))
    => /\ refined = <<>>
       /\ "Refine" \notin failed
       /\ pc = "metadata" => generated_files = files_before_refine
       /\ ai_metadata.built =>
            ai_metadata.refinement_metadata =
              [triggered |-> TRUE, applied |-> FALSE, changes |-> <<>>, built |-> TRUE]

\* C22: in the state the review block leaves behind after review_and_fix_tests
\* returned the correction set C, the working set maps every path of C to
\* C's content and every other path to the content generation gave it, and
\* has no other path.
C22_CorrectionsApplied ==
    (review_json.present /\ trace # <<>> /\ trace[Len(trace)] = "Review")
    => /\ dict_keys(generated_files) = dict_keys(snapshot) \cup dict_keys(corrected)
       /\ \A p \in dict_keys(generated_files) :
            dict_get(generated_files, p) =
              IF p \in dict_keys(corrected) THEN dict_get(corrected, p)
              ELSE dict_get(snapshot, p)

(***************************************************************************)
(* Claims about the parsing of descriptions and completions.               *)
(***************************************************************************)
\* the pairs of the lines whose first whitespace-delimited token is a method
\* name in any letter case and which have a second token
RECURSIVE MethodLinePairs(_)
MethodLinePairs(lines) ==
    IF lines = <<>> THEN <<>>
    ELSE LET tokens == split(Head(lines))
         IN (IF Len(tokens) >= 2 /\ upper(tokens[1]) \in HttpMethods
             THEN <<[method |-> upper(tokens[1]), path |-> tokens[2]]>>
             ELSE <<>>) \o MethodLinePairs(Tail(lines))

\* C23: endpoint parsing returns one (method, path) pair for every line whose
\* first whitespace-delimited token is GET, POST, PUT, DELETE or PATCH in any
\* letter case and is followed by one more token at least, in line order with
\* duplicates kept, and nothing for any other line; a description with no
\* specification URL gets these pairs as its endpoint contract.
C23_EndpointLines ==
    pc = "returned" =>
      LET text == normalize_description(epic)
          pairs == MethodLinePairs(splitlines(text))
      IN /\ extract_endpoints(text) = pairs
         /\ (extract_openapi_url(text) = NoUrl /\ pairs # <<>>)
              => contract = EndpointContract(pairs)

\* the blocks of a completion: the matches of the pattern, from left to right
BlocksOf(text) == test_file_matches(text, 1)

\* C24: for a completion with one block at least, parse_test_files returns
\* every path of a block once, with the content of the last block of that
\* path, and no other path.
C24_LastBlockWins ==
    (returned.fn = "parse_test_files" /\ BlocksOf(response) # <<>>) =>
        LET blocks == BlocksOf(response)
            files == returned.files
        IN /\ { files[i].path : i \in 1..Len(files) }
                = { blocks[m].path : m \in 1..Len(blocks) }
           /\ \A i, j \in 1..Len(files) : files[i].path = files[j].path => i = j
           /\ \A i \in 1..Len(files) :
                \E m \in 1..Len(blocks) :
                   /\ blocks[m] = files[i]
                   /\ \A n \in (m + 1)..Len(blocks) : blocks[n].path # files[i].path

\* two blocks for a.py with different contents, and one for b.py between them
C24_Witness ==
    /\ returned.fn = "parse_test_files"
    /\ response = <<HdrA, NL, "x", EndMarker, HdrB, NL, "x", NL, EndMarker,
                    HdrA, NL, EndMarker>>
    /\ returned.files = <<Item(<<"a.py">>, <<>>), Item(<<"b.py">>, <<"x">>)>>

\* C25: for a rich document whose blocks are paragraphs and headings, the
\* normalized text has one line per block (a newline is appended after every
\* paragraph and heading node), so the endpoint lines of separate blocks
\* are each recognised, in document order.
C25_ParagraphsAreLines ==
    (pc = "returned" /\ epic.kind = "adf"
       /\ \A i \in 1..Len(epic.adf.content) :
             epic.adf.content[i].type \in {"paragraph", "heading"})
    => LET blocks == epic.adf.content
           texts == [i \in 1..Len(blocks) |-> blocks[i].content[1].text]
           text == normalize_description(epic)
           lines == splitlines(text)
           pairs == MethodLinePairs(texts)
       IN /\ Len(lines) = Len(blocks)
          /\ \A i \in 1..Len(blocks) : strip(lines[i]) = texts[i]
          /\ extract_endpoints(text) = pairs
          /\ (extract_openapi_url(text) = NoUrl /\ pairs # <<>>)
               => contract = EndpointContract(pairs)

\* a heading and a paragraph, each with an endpoint line
C25_Witness ==
    /\ pc = "returned"
    /\ epic = DescAdf(<<BlockNode("heading", <<"GET", SP, "/users">>),
                        BlockNode("paragraph", <<"post", SP, "/items">>)>>)
    /\ contract = EndpointContract(<<[method |-> "GET", path |-> "/users"],
                                     [method |-> "POST", path |-> "/items"]>>)

\* C26: when extract_contract is called with fetch_openapi = False no
\* network read is made, and a description with a specification URL gives
\* the contract that holds the URL and nothing else.
C26_NoFetchWhenNotRequested ==
    ~fetch_openapi =>
        /\ http_log = <<>>
        /\ pc # "fetch_openapi_spec"
        /\ (pc = "returned" /\ extract_openapi_url(normalize_description(epic)) # NoUrl)
             => contract = UrlContract(extract_openapi_url(normalize_description(epic)))

C26_Witness ==
    /\ ~fetch_openapi
    /\ pc = "returned"
    /\ epic = DescStr(<<"Spec:", SP, "http://h/openapi", NL, "GET", SP, "/users">>)
    /\ contract = UrlContract(<<"http://h/openapi">>)
    /\ http_log = <<>>

(***************************************************************************)
(* Claims about the calls and the outcomes of a run (checked under Spec    *)
(* and FairSpec).                                                          *)
(***************************************************************************)
CallsOf(stage) == Cardinality({ i \in 1..Len(trace) : trace[i] = stage })

\* C27: in one run the work item is fetched once at most, the contract
\* fetch makes three network reads at most, and the gate, generation,
\* review and refinement oracles are called once at most each: no call is
\* repeated after a failure.
C27_BoundedCalls ==
    /\ \A stage \in {"FetchItem", "ResolveContract", "GateCheck", "Generate",
                      "Review", "Refine"} : CallsOf(stage) <= 1
    /\ Len(http_log) <= 3
    /\ \A i, j \in 1..Len(http_log) : http_log[i].url = http_log[j].url => i = j

\* a run in which three reads, the gate and the refinement failed
C27_Witness ==
    /\ pc = "returned"
    /\ Len(http_log) = 3
    /\ \A i \in 1..3 : ~http_log[i].returned
    /\ {"GateCheck", "Refine"} \subseteq failed
    /\ \A stage \in {"FetchItem", "GateCheck", "Generate", "Review", "Refine"} :
          CallsOf(stage) = 1

\* the three outcomes of a run
Completed == pc = "returned" /\ ~results.skipped
GateExit == pc = "returned" /\ results.skipped
FatalFailure == pc = "raised" /\ raised # "None"
Terminated == pc \in {"returned", "raised"}

\* C28: when every call of a collaborator returns or raises, every run
\* terminates, and a terminated run is in exactly one of three outcomes:
\* completed (a result without the skipped flag, after the metadata was
\* assembled), gate early exit (the skipped result, nothing generated) or
\* fatal failure (an exception re-raised to the caller by the handler).
C28_RunTerminates ==
    /\ <>Terminated
    /\ [](Terminated =>
           /\ Completed \/ GateExit \/ FatalFailure
           /\ ~(Completed /\ GateExit) /\ ~(Completed /\ FatalFailure)
           /\ ~(GateExit /\ FatalFailure)
           /\ Completed => (InTrace("AssembleMetadata") /\ raised = "None")
           /\ GateExit => (GateRefused /\ ~InTrace("Generate") /\ raised = "None")
           /\ FatalFailure => (trace[Len(trace)] = "NotifyError" /\ raised = exc))

C28_WitnessCompleted ==
    /\ Completed
    /\ trace[Len(trace)] = "Notify"
    /\ failed = {}

(***************************************************************************)
(* Claims about the polling runner (checked under SpecRunner).             *)
(***************************************************************************)
\* C29: the recently-processed set of the polling runner only grows, and
\* the runner never calls process_epic for a key that is in the set.
C29_CacheGrowsAndSkips ==
    [][/\ recently_processed \subseteq recently_processed'
       /\ invocations' # invocations =>
            /\ Len(invocations') = Len(invocations) + 1
            /\ invocations'[Len(invocations')].key \notin recently_processed]_vars

\* a key was processed in one cycle and skipped in a later one: it is in the
\* set, the search returned it again and the loop went past it
C29_Witness ==
    /\ cycle = 2
    /\ runner_pc = "loop"
    /\ issues = <<"KAN-1", "KAN-2">>
    /\ issue_idx = 2
    /\ recently_processed = {"KAN-1"}
    /\ invocations = <<[key |-> "KAN-1", cycle |-> 1, outcome |-> "completed"]>>

(***************************************************************************)
(* Claims about concurrent runs (checked under SpecWebhook).               *)
(***************************************************************************)
\* C30: any two runs that reach the publication compute distinct branch
\* names, two runs for the same issue key started by two webhook deliveries
\* included.
C30_DistinctBranchNames ==
    \A r1, r2 \in Runs :
        (r1 # r2 /\ run_branch[r1] # NoName /\ run_branch[r2] # NoName)
        => run_branch[r1] # run_branch[r2]

\* C40: any two runs for the same issue key that save locally write to
\* distinct output directories, two runs that execute at the same time
\* included.
C40_DistinctOutputDirs ==
    \A r1, r2 \in Runs :
        (/\ r1 # r2
         /\ run_key[r1] = run_key[r2]
         /\ run_dir[r1] # NoName
         /\ run_dir[r2] # NoName)
        => run_dir[r1] # run_dir[r2]

(***************************************************************************)
(* Claims about the recorded refinement outcome (checked under Spec).      *)
(***************************************************************************)
\* C31: the refinement outcome recorded in the metadata has triggered = true
\* if and only if the refinement was invoked in the run; when the average
\* is above the threshold it is triggered = false, applied = false and no
\* changes.
C31_TriggeredIffRefineInvoked ==
    ai_metadata.built =>
        /\ ai_metadata.refinement_metadata.triggered <=> InTrace("Refine")
        /\ (avg.set /\ ~avg_le_threshold(avg.sum, threshold)) =>
              ai_metadata.refinement_metadata =
                [triggered |-> FALSE, applied |-> FALSE, changes |-> <<>>, built |-> TRUE]

\* C32: a failed advisory stage applies no correction: when the review block
\* raised, the files passed on are the generation output; when the call of
\* the refinement raised, they are the files as they stood before it.
C32_FailedStageAppliesNothing ==
    pc = "metadata" =>
        /\ "Review" \in failed => generated_files = snapshot
        /\ (InTrace("Refine") /\ refine_raises(refine_response))
             => generated_files = files_before_refine

\* C35: every path named in a change record of the refinement is a key of
\* the correction set the refiner returned in that run, and a path whose
\* content was changed by the reviewer's corrections and not by the refiner
\* has no change record.
C35_ChangeRecordsAreRefinerKeys ==
    (pc = "metadata" /\ refined_meta.triggered) =>
        /\ \A k \in 1..Len(refined_meta.changes) :
              refined_meta.changes[k].path \in dict_keys(refined)
        /\ \A p \in dict_keys(corrected) \ dict_keys(refined) : RecordsOf(p) = {}

\* the review corrected test_a.py, the refinement added test_new.py: one
\* record, for the new file
C35_Witness ==
    /\ pc = "metadata"
    /\ refined_meta.triggered
    /\ corrected = <<Item("test_a.py", "a2")>>
    /\ dict_get(snapshot, "test_a.py") = "a1"
    /\ dict_get(generated_files, "test_a.py") = "a2"
    /\ refined = <<Item("test_new.py", "n1")>>
    /\ refined_meta.changes = <<[path |-> "test_new.py", change |-> "added"]>>

(***************************************************************************)
(* Claims about the comments of a run (checked under Spec).                *)
(***************************************************************************)
CommentsOf(kind) == { i \in 1..Len(comments) : comments[i].kind = kind }

\* C36: in every run that returned after Publish succeeded, post_comment was
\* called with the success summary, whatever save_locally is.
C36_SuccessCommentAfterPublish ==
    (pc = "returned" /\ results.github_branch # "None") => CommentsOf("success") # {}

\* C37: a run attempts one comment at most: the notice of the gate's
\* refusal, the success summary and the error notice exclude each other,
\* whatever stage fails and whether the attempt fails or not.
C37_AtMostOneComment ==
    /\ Len(comments) <= 1
    /\ \A kind \in {"gate", "success", "error"} :
          CommentsOf(kind) # {} =>
             \A other \in {"gate", "success", "error"} \ {kind} : CommentsOf(other) = {}

\* the publication failed after the local save, and the one comment, the
\* error notice, failed too
C37_Witness ==
    /\ pc = "raised"
    /\ "Publish" \in failed
    /\ results.output_dir # "None"
    /\ comments = <<[kind |-> "error", ok |-> FALSE]>>

(***************************************************************************)
(* Claims about the review scores (checked under Spec).                    *)
(***************************************************************************)
\* values the composite score of a review may have, in tenths
ScoreValues == {0, 2, 5, 9, 10}

\* C38: the composite score of the review has no influence on control flow:
\* whenever the review block ran on a result with a numeric score, the run
\* with any other numeric score and everything else equal makes the same
\* decision about the refinement and has the same working files.
C38_ScoreHasNoInfluence ==
    [][(pc = "review" /\ review_json'.present /\ "score" \notin review_json'.non_numeric)
       => \A s \in ScoreValues :
            LET twin == review_block([review_json' EXCEPT !.score = s], corrected',
                                     generated_files, threshold)
            IN /\ twin.next = pc'
               /\ twin.files = generated_files'
               /\ twin.raised = ("Review" \in failed')
               /\ ~twin.raised => twin.avg = avg']_vars

\* a low composite score with a high average: corrections applied, no
\* refinement
C38_Witness ==
    /\ pc = "metadata"
    /\ trace[Len(trace)] = "Review"
    /\ review_json.score = 2
    /\ review_sum(review_json) = 30
    /\ corrected # <<>>
    /\ generated_files = dict_update(snapshot, corrected)
    /\ "Review" \notin failed

\* C39: when the completion of the review oracle is no JSON, the result put
\* in its place has an average of 0, which is at or below every threshold
\* from 0 on, so the refinement is invoked in that run and gets the raw
\* completion, cut to NotesLimit characters, as its notes.
C39_UnparseableReviewRefines ==
    (review_json.present /\ review_json.notes = "raw") =>
        /\ review_sum(review_json) = 0
        /\ \A thr \in 0..10 : avg_le_threshold(review_sum(review_json), thr)
        /\ "Review" \notin failed
        /\ pc = "refine" \/ InTrace("Refine")
        /\ InTrace("Refine") =>
              /\ refine_notes = [text |-> "raw", len |-> review_json.notes_len]
              /\ refine_notes.len <= NotesLimit

\* a completion of 4001 characters: the refinement got the first 4000
C39_Witness ==
    /\ InTrace("Refine")
    /\ review_json.notes = "raw"
    /\ refine_notes = [text |-> "raw", len |-> NotesLimit]
    /\ corrected = <<>>

\* the call of process_epic made by a step of the runner, if it made one
RunnerCalled == invocations' # invocations
LastCall == invocations'[Len(invocations')]

\* the loop of the runner stands at an issue whose key is not in the set
AtUnprocessedKey ==
    /\ runner_pc = "loop"
    /\ issue_idx <= Len(issues)
    /\ issues[issue_idx] # NoKey
    /\ issues[issue_idx] \notin recently_processed

\* C33: a key enters the recently-processed set only in the step in which
\* process_epic returned for it (completed or skipped by the gate); a call
\* that raised leaves its key out of the set; and whenever the loop comes to
\* an issue whose key is not in the set, in whatever cycle, it calls
\* process_epic for that key.
C33_AddedOnlyAfterReturn ==
    [][/\ recently_processed' # recently_processed =>
            /\ RunnerCalled
            /\ LastCall.outcome \in {"completed", "skipped"}
            /\ recently_processed' = recently_processed \cup {LastCall.key}
       /\ (RunnerCalled /\ LastCall.outcome = "raised") =>
            /\ LastCall.key \notin recently_processed'
            /\ recently_processed' = recently_processed
       /\ AtUnprocessedKey =>
            /\ RunnerCalled
            /\ LastCall.key = issues[issue_idx]
            /\ LastCall.cycle = cycle]_vars

\* the run of KAN-1 raised in the first cycle and in the second; the third
\* search returned the key again, process_epic was called for it again and
\* returned, and only then the key entered the set
C33_Witness ==
    /\ cycle = 3
    /\ recently_processed = {"KAN-1"}
    /\ invocations = <<[key |-> "KAN-1", cycle |-> 1, outcome |-> "raised"],
                       [key |-> "KAN-1", cycle |-> 2, outcome |-> "raised"],
                       [key |-> "KAN-1", cycle |-> 3, outcome |-> "completed"]>>

\* C34: a call of process_epic that raises does not end the runner: the step
\* leaves the runner in the for loop of the same search, one issue further,
\* so the issues after it are still handled (C33) and the end of the list
\* leads to the sleep before the next search; the runner ends by an
\* interrupt only.
C34_RaiseDoesNotStopRunner ==
    [][/\ (RunnerCalled /\ LastCall.outcome = "raised") =>
            /\ runner_pc' = "loop"
            /\ issue_idx' = issue_idx + 1
            /\ issues' = issues
            /\ cycle' = cycle
       /\ (runner_pc = "loop" /\ issue_idx > Len(issues)) => runner_pc' = "sleep"
       /\ (runner_pc = "sleep" /\ runner_pc' # "exited") => runner_pc' = "search"
       /\ (runner_pc = "loop" /\ runner_pc' = "exited") =>
            /\ RunnerCalled
            /\ LastCall.outcome = "interrupted"]_vars

\* the first issue of the first search raised, the second was processed in
\* the same cycle, and the next cycle called the pipeline for the first again
C34_Witness ==
    /\ cycle = 2
    /\ runner_pc = "loop"
    /\ issues = <<"KAN-1", "KAN-2">>
    /\ recently_processed = {"KAN-2"}
    /\ invocations = <<[key |-> "KAN-1", cycle |-> 1, outcome |-> "raised"],
                       [key |-> "KAN-2", cycle |-> 1, outcome |-> "completed"],
                       [key |-> "KAN-1", cycle |-> 2, outcome |-> "raised"]>>

====
